---- MODULE Spec2Model ----
(***************************************************************************)
(* Synapse backend: the sync engine of app/api/sync.py (push with          *)
(* last-writer-wins, soft delete, checkpointed pull) over the entity       *)
(* store (notes, keywords, note_keyword links, relations, reflections).    *)
(*                                                                         *)
(* Timestamps are instants (naturals).  A payload carries ISO-8601 strings *)
(* which the handlers parse with                                           *)
(*   datetime.fromisoformat(s.replace("Z", "+00:00"));                     *)
(* an ISO string is modelled as <<instant, suffix>>.                       *)
(***************************************************************************)
EXTENDS Integers, Sequences, FiniteSets, TLC

\* ---------------------------------------------------------------- bounds
MaxTs == 3        \* client timestamps are 1..MaxTs
MaxWrites == 3    \* SpecLww, SpecConc: note writes pushed in one run
PageCap == 2      \* rows per entity type in one pull: limit(100), scaled down
MaxClock == 2     \* the server wall clock takes the values 1..MaxClock
MaxReads == 4     \* SpecCkpt: readings of the clock in one run
MaxBatch == 3     \* SpecBatch: changes in one push request
MaxPushes == 3    \* SpecOps: push requests in one run
MaxItems == 3     \* changes in one push request: max_items=100, scaled down
MaxCandidates == 2 \* neighbours retrieved for a recommendation: 50, scaled down
MaxK == 2         \* recommendations asked for: k <= 50, scaled down
MaxClustered == 5 \* SpecCluster: notes clustered under every labelling

Users == {"u1", "u2"}
NoteIds == {"n1", "n2", "n3"}
Workers == {"w1", "w2"}
Dates == {"d1"}
RelIds == {"r1"}
RelationTypes == {"related"}

None == "None"    \* Python None for optional strings and embeddings
NULL == 0         \* SQL NULL for a nullable timestamp column

\* How a derivation service behaves during one note write: it is obtained
\* and its call returns; it is obtained and its call fails (encode raises,
\* the analysis raises); or it cannot be obtained (get_embedding_service() /
\* get_keyword_service() raise while loading the model or the analyzer).
Works == "works"
Fails == "fails"
Unavailable == "unavailable"

ClientTimes == 1..MaxTs
ClockValues == 1..MaxClock

\* ISO-8601 strings of the payloads: an instant written with a "Z" or a
\* "+00:00" suffix.
IsoStrings == ClientTimes \X {"Z", "+00:00"}

\* datetime.fromisoformat(s.replace("Z", "+00:00")): both spellings denote
\* the same instant.
FromIso(s) == s[1]

\* `None if not payload.get("deleted_at") else fromisoformat(...)`: the
\* payload's deleted_at is an ISO string or absent/None.
ParseDeletedAt(d) == IF d = None THEN NULL ELSE FromIso(d)

\* The user-visible content of a note payload (body, importance and the
\* optional source_url / image_path), and the spelling of its updated_at.
NoteContents ==
  { [body |-> "a", importance |-> 1, source_url |-> None, image_path |-> None,
     suffix |-> "Z"],
    [body |-> "b", importance |-> 2, source_url |-> "url", image_path |-> None,
     suffix |-> "+00:00"] }

\* Payloads of a note insert/update that carry every required field, as a
\* client writes them: created_at <= updated_at, and deleted_at, when
\* given, >= updated_at.
NotePayloads ==
  { [body |-> c.body, importance |-> c.importance,
     source_url |-> c.source_url, image_path |-> c.image_path,
     created_at |-> <<t[1], "Z">>, updated_at |-> <<t[2], c.suffix>>,
     deleted_at |-> IF t[3] = NULL THEN None ELSE <<t[3], "Z">>] :
       c \in NoteContents,
       t \in { x \in {1} \X ClientTimes \X ({NULL} \cup ClientTimes) :
                 x[1] <= x[2] /\ (x[3] = NULL \/ x[2] <= x[3]) } }

\* Payloads of a note delete: deleted_at is optional.
DeletePayloads == { [deleted_at |-> da] : da \in {None} \cup IsoStrings }

\* Payloads of a relation insert that carry every required field.
RelationPayloads ==
  { [from_note_id |-> f, to_note_id |-> t, relation_type |-> rt,
     created_at |-> <<ca, "Z">>] :
       f \in NoteIds, t \in NoteIds, rt \in RelationTypes, ca \in ClientTimes }

\* Payloads of a reflection insert/update that carry every required field.
ReflectionPayloads ==
  { [date |-> d, content |-> c, created_at |-> <<ca, "Z">>, updated_at |-> ua] :
       d \in Dates, c \in {"x", "y"}, ca \in {1}, ua \in IsoStrings }

\* ------------------------------------------------ derivation (C1, C2)
\* EmbeddingService.generate_embedding: a vector determined by the body; it
\* raises on empty text or on a model failure (ok = Fails), and the caller
\* then stores None.
generate_embedding(body, ok) ==
  IF ok = Works /\ body # "" THEN "emb_" \o body ELSE None

\* KeywordService.extract_keyword_names(body, top_k=5): the distinct keyword
\* names of the body, or [] on empty text or when the analysis raises.
extract_keyword_names(body, ok) ==
  IF ok # Works \/ body = "" THEN <<>>
  ELSE IF body = "a" THEN <<"k1">>
  ELSE <<"k1", "k2">>

\* ----------------------------------------------------------------- state
VARIABLES
  now,            \* the server wall clock (datetime.now(timezone.utc))
  notes,          \* table notes: id -> row, for the ids that exist
  keywords,       \* table keywords: sequence of names, id = position
  note_keywords,  \* table note_keywords: set of <<note_id, keyword_id>>
  relations,      \* table relations: id -> row
  reflections,    \* table reflections: <<user_id, date>> -> row
  last,           \* the last push item processed and its reported result
  pushed,         \* the note writes pushed so far, in order (SpecLww, SpecConc)
  txn,            \* SpecConc: each worker's push item in progress
  sess,           \* SpecPull: a client's pull loop
  weekly_reports  \* table weekly_reports: the rows, in insertion order

vars == <<now, notes, keywords, note_keywords, relations, reflections, last,
          pushed, txn, sess, weekly_reports>>

\* The committed content of the store, as the handlers see it.
DB == [notes |-> notes, keywords |-> keywords, note_keywords |-> note_keywords,
       relations |-> relations, reflections |-> reflections]

\* f with key k bound to v (INSERT or UPDATE of one row).
Put(f, k, v) == [x \in (DOMAIN f) \cup {k} |-> IF x = k THEN v ELSE f[x]]

\* f without key k (DELETE of one row).
Drop(f, k) == [x \in (DOMAIN f) \ {k} |-> f[x]]

\* ------------------------------------------------------------ note model
\* Column Note.server_timestamp of the ORM model: the server's now() when the
\* row is inserted or updated (spec 4.1, step 6).
NoteServerTimestamp(clk) == clk

\* ------------------------------------------------------- handler results
\* A handler that returns normally: push_sync commits the session.
Done(db) == [ok |-> TRUE, db |-> db]

\* A handler that raises: push_sync rolls the session back to `db`.
Raise(db) == [ok |-> FALSE, db |-> db]

\* `for field in required_fields: if field not in payload: raise`
HasFields(payload, required_fields) == required_fields \subseteq DOMAIN payload

\* --------------------------------------------------- process_note_insert
\* db.query(Keyword).filter(Keyword.name == name).first() is not None
HasKeyword(kws, name) == \E i \in 1..Len(kws) : kws[i] = name

\* keyword.id of the row with that name
KeywordId(kws, name) == CHOOSE i \in 1..Len(kws) : kws[i] = name

\* The loop `for keyword_name in keywords`: get or create the keyword row,
\* then add the association (note_id, keyword.id).
RECURSIVE LinkKeywords(_, _, _, _)
LinkKeywords(kws, links, note_id, names) ==
  IF names = <<>> THEN [keywords |-> kws, note_keywords |-> links]
  ELSE LET name == Head(names)
           kws2 == IF HasKeyword(kws, name) THEN kws ELSE Append(kws, name)
       IN LinkKeywords(kws2, links \cup {<<note_id, KeywordId(kws2, name)>>},
                       note_id, Tail(names))

\* The comparison turned round: the older write would win.
LwwSkipsNewer(existing_updated, new_updated) == new_updated >= existing_updated

\* The comparison made strict: a tie would be applied.
LwwSkipsStrict(existing_updated, new_updated) == new_updated < existing_updated

\* The LWW test of process_note_insert: an existing row and
\* new_updated <= existing.updated_at means the write is skipped.
LwwSkips(existing_updated, new_updated) == new_updated <= existing_updated

\* A write that replaces the whole row by the one the request describes.
NoteRowReplaced(db, clk, user_id, entity_id, payload, embedding) ==
  [user_id |-> user_id,
   body |-> payload.body,
   importance |-> payload.importance,
   source_url |-> payload.source_url,
   image_path |-> payload.image_path,
   embedding |-> embedding,
   created_at |-> FromIso(payload.created_at),
   updated_at |-> FromIso(payload.updated_at),
   deleted_at |-> ParseDeletedAt(payload.deleted_at),
   server_timestamp |-> NoteServerTimestamp(clk)]

\* The row written by a winning insert/update: an existing row keeps its id,
\* user_id and created_at; a new row takes them from the request.
NoteRow(db, clk, user_id, entity_id, payload, embedding) ==
  IF entity_id \in DOMAIN db.notes
  THEN [db.notes[entity_id] EXCEPT
          !.body = payload.body,
          !.importance = payload.importance,
          !.source_url = payload.source_url,
          !.image_path = payload.image_path,
          !.embedding = embedding,
          !.updated_at = FromIso(payload.updated_at),
          !.deleted_at = ParseDeletedAt(payload.deleted_at),
          !.server_timestamp = NoteServerTimestamp(clk)]
  ELSE [user_id |-> user_id,
        body |-> payload.body,
        importance |-> payload.importance,
        source_url |-> payload.source_url,
        image_path |-> payload.image_path,
        embedding |-> embedding,
        created_at |-> FromIso(payload.created_at),
        updated_at |-> FromIso(payload.updated_at),
        deleted_at |-> ParseDeletedAt(payload.deleted_at),
        server_timestamp |-> NoteServerTimestamp(clk)]

\* The UPDATE that db.flush() emits for an ORM object loaded as `loaded`
\* whose attributes now read `new`: it sets the columns whose value differs
\* from the loaded one (and server_timestamp), on the row as it is now.
FlushUpdate(current, loaded, new) ==
  [c \in DOMAIN new |->
     IF c = "server_timestamp" \/ new[c] # loaded[c] THEN new[c] ELSE current[c]]

\* A write that keeps the links the note had.
KeepLinks(links, note_id) == links

\* db.query(NoteKeyword).filter(NoteKeyword.note_id == entity_id).delete()
ClearLinks(links, note_id) == { l \in links : l[1] # note_id }

\* process_note_insert, where `seen` is the store as its first query reads it
\* (existing = db.query(Note)...first()) and `db` the store when it flushes.
\* embOk / kwOk say how the embedding provider and the keyword analysis
\* behave (Works, Fails, Unavailable): get_embedding_service() and
\* get_keyword_service() are called outside any try, after the LWW test and
\* before the first write.  An INSERT of an id that exists by then raises
\* IntegrityError.
note_insert(seen, db, clk, user_id, entity_id, payload, embOk, kwOk) ==
  IF ~HasFields(payload, {"body", "importance", "created_at", "updated_at"})
  THEN Raise(db)
  ELSE IF entity_id \in DOMAIN seen.notes
          /\ LwwSkips(seen.notes[entity_id].updated_at, FromIso(payload.updated_at))
  THEN Done(db)
  ELSE IF embOk = Unavailable \/ kwOk = Unavailable
  THEN Raise(db)
  ELSE IF entity_id \notin DOMAIN seen.notes /\ entity_id \in DOMAIN db.notes
  THEN Raise(db)
  ELSE LET embedding == generate_embedding(payload.body, embOk)
           names == extract_keyword_names(payload.body, kwOk)
           written == NoteRow(seen, clk, user_id, entity_id, payload, embedding)
           note == IF entity_id \in DOMAIN seen.notes
                   THEN FlushUpdate(db.notes[entity_id], seen.notes[entity_id], written)
                   ELSE written
           cleared == ClearLinks(db.note_keywords, entity_id)
           linked == LinkKeywords(db.keywords, cleared, entity_id, names)
       IN Done([db EXCEPT !.notes = Put(db.notes, entity_id, note),
                          !.keywords = linked.keywords,
                          !.note_keywords = linked.note_keywords])

\* process_note_insert(db, user_id, entity_id, payload) run on its own: it
\* flushes to the store it read.
process_note_insert(db, clk, user_id, entity_id, payload, embOk, kwOk) ==
  note_insert(db, db, clk, user_id, entity_id, payload, embOk, kwOk)

\* process_note_update: "Same as insert for notes (upsert logic)".
process_note_update(db, clk, user_id, entity_id, payload, embOk, kwOk) ==
  process_note_insert(db, clk, user_id, entity_id, payload, embOk, kwOk)

\* --------------------------------------------------- process_note_delete
\* The user filter left out: any note with that id would do.
AnyNote(db, user_id, id) == id \in DOMAIN db.notes

\* The note a handler looks up with Note.id == id and Note.user_id == user_id.
OwnedNote(db, user_id, id) ==
  id \in DOMAIN db.notes /\ db.notes[id].user_id = user_id

\* process_note_delete: soft delete with the payload's deleted_at, or the
\* server's now() when it is absent; then server_timestamp = now().
process_note_delete(db, clk, user_id, entity_id, payload) ==
  IF ~OwnedNote(db, user_id, entity_id) THEN Done(db)
  ELSE Done([db EXCEPT !.notes[entity_id] =
          [@ EXCEPT !.deleted_at = IF ParseDeletedAt(payload.deleted_at) # NULL
                                   THEN FromIso(payload.deleted_at)
                                   ELSE clk,
                    !.server_timestamp = clk]])

\* ----------------------------------------------- process_relation_insert
\* An insert that overwrites the row of an id that exists.
relation_upsert(db, user_id, entity_id, payload) ==
  IF ~HasFields(payload, {"from_note_id", "to_note_id", "relation_type", "created_at"})
  THEN Raise(db)
  ELSE IF ~OwnedNote(db, user_id, payload.from_note_id)
          \/ ~OwnedNote(db, user_id, payload.to_note_id)
  THEN Raise(db)
  ELSE Done([db EXCEPT !.relations = Put(db.relations, entity_id,
               [from_note_id |-> payload.from_note_id,
                to_note_id |-> payload.to_note_id,
                relation_type |-> payload.relation_type,
                created_at |-> FromIso(payload.created_at)])])

process_relation_insert(db, user_id, entity_id, payload) ==
  IF ~HasFields(payload, {"from_note_id", "to_note_id", "relation_type", "created_at"})
  THEN Raise(db)
  ELSE IF entity_id \in DOMAIN db.relations THEN Done(db)
  ELSE IF ~OwnedNote(db, user_id, payload.from_note_id)
          \/ ~OwnedNote(db, user_id, payload.to_note_id)
  THEN Raise(db)
  ELSE Done([db EXCEPT !.relations = Put(db.relations, entity_id,
               [from_note_id |-> payload.from_note_id,
                to_note_id |-> payload.to_note_id,
                relation_type |-> payload.relation_type,
                created_at |-> FromIso(payload.created_at)])])

\* ----------------------------------------------- process_relation_delete
process_relation_delete(db, user_id, entity_id, payload) ==
  IF entity_id \in DOMAIN db.relations
     /\ OwnedNote(db, user_id, db.relations[entity_id].from_note_id)
  THEN Done([db EXCEPT !.relations = Drop(db.relations, entity_id)])
  ELSE Done(db)

\* --------------------------------------------- process_reflection_insert
\* The row is addressed by (user_id, payload["date"]); entity_id is not read.
process_reflection_insert(db, user_id, entity_id, payload) ==
  IF ~HasFields(payload, {"date", "content", "created_at", "updated_at"})
  THEN Raise(db)
  ELSE LET key == <<user_id, payload.date>>
       IN IF key \in DOMAIN db.reflections
          THEN Done([db EXCEPT !.reflections[key] =
                  [@ EXCEPT !.content = payload.content,
                            !.updated_at = FromIso(payload.updated_at)]])
          ELSE Done([db EXCEPT !.reflections = Put(db.reflections, key,
                  [content |-> payload.content,
                   created_at |-> FromIso(payload.created_at),
                   updated_at |-> FromIso(payload.updated_at)])])

\* --------------------------------------------- process_reflection_delete
\* date = payload.get("date", entity_id); the row is deleted for good.
process_reflection_delete(db, user_id, entity_id, payload) ==
  LET date == IF "date" \in DOMAIN payload THEN payload.date ELSE entity_id
      key == <<user_id, date>>
  IN IF key \in DOMAIN db.reflections
     THEN Done([db EXCEPT !.reflections = Drop(db.reflections, key)])
     ELSE Done(db)

\* ---------------------------------------------------- push_sync, one item
\* An unknown entity type or operation that is let through.
Skipped(db) == Done(db)

\* raise ValidationError(f"Unknown operation: {operation}") and its like for
\* relations, reflections and unknown entity types.
Unsupported(db) == Raise(db)

\* The body of `for change in request.changes`: route the change to its
\* handler; commit when it returns, roll back and report the failure when it
\* raises.  Unknown entity types and operations raise ValidationError.
push_item(db, clk, user_id, change, embOk, kwOk) ==
  LET entity_id == change.entity_id
      operation == change.operation
      payload == change.payload
  IN CASE change.entity_type = "note" /\ operation = "insert" ->
            process_note_insert(db, clk, user_id, entity_id, payload, embOk, kwOk)
       [] change.entity_type = "note" /\ operation = "update" ->
            process_note_update(db, clk, user_id, entity_id, payload, embOk, kwOk)
       [] change.entity_type = "note" /\ operation = "delete" ->
            process_note_delete(db, clk, user_id, entity_id, payload)
       [] change.entity_type = "relation" /\ operation = "insert" ->
            process_relation_insert(db, user_id, entity_id, payload)
       [] change.entity_type = "relation" /\ operation = "delete" ->
            process_relation_delete(db, user_id, entity_id, payload)
       [] change.entity_type = "reflection" /\ operation \in {"insert", "update"} ->
            process_reflection_insert(db, user_id, entity_id, payload)
       [] change.entity_type = "reflection" /\ operation = "delete" ->
            process_reflection_delete(db, user_id, entity_id, payload)
       [] OTHER -> Unsupported(db)

\* ----------------------------------------------------------- pull_sync
\* generate_checkpoint(): datetime.now(timezone.utc).isoformat()
generate_checkpoint(clk) == <<clk, "+00:00">>

\* ------------------------------------------------- push_sync, the batch
\* The required_fields lists of the three insert handlers, in their order.
NoteRequiredFields == <<"body", "importance", "created_at", "updated_at">>

RelationRequiredFields == <<"from_note_id", "to_note_id", "relation_type", "created_at">>

ReflectionRequiredFields == <<"date", "content", "created_at", "updated_at">>

\* `for field in required_fields: if field not in payload: raise ...`: the
\* first field of the list that the payload lacks (None when it has all).
RECURSIVE FirstMissing(_, _)
FirstMissing(payload, required_fields) ==
  IF required_fields = <<>> THEN None
  ELSE IF Head(required_fields) \notin DOMAIN payload THEN Head(required_fields)
  ELSE FirstMissing(payload, Tail(required_fields))

\* An error text that does not say which field is missing.
ValidationFailed(field) == <<"Validation failed", None>>

\* ValidationError(f"Missing required field: {field}")
MissingFieldError(field) == <<"Missing required field: ", field>>

\* str(e) of the exception a change raises in its handler or in the routing
\* of push_sync.
item_error(db, user_id, change) ==
  LET payload == change.payload
      missing(required_fields) == FirstMissing(payload, required_fields)
  IN CASE change.entity_type = "note" /\ change.operation \in {"insert", "update"} ->
            MissingFieldError(missing(NoteRequiredFields))
       [] change.entity_type = "relation" /\ change.operation = "insert" ->
            IF missing(RelationRequiredFields) # None
            THEN MissingFieldError(missing(RelationRequiredFields))
            ELSE <<"One or both notes not found or don't belong to user", None>>
       [] change.entity_type = "reflection" /\ change.operation \in {"insert", "update"} ->
            MissingFieldError(missing(ReflectionRequiredFields))
       [] change.entity_type = "note" -> <<"Unknown operation: ", change.operation>>
       [] change.entity_type = "relation" ->
            <<"Unknown operation for relation: ", change.operation>>
       [] change.entity_type = "reflection" ->
            <<"Unknown operation for reflection: ", change.operation>>
       [] OTHER -> <<"Unknown entity type: ", change.entity_type>>

\* What the session holds when the storage fails (SQLAlchemyError) at the
\* last flush of an item's handler or at its commit: for a note, the row is
\* flushed and its keyword links are deleted, the new links are not there
\* yet; for the other entities the written row is pending.
PartialWrite(db, written, change) ==
  IF change.entity_type = "note"
  THEN [db EXCEPT !.notes = written.notes,
                  !.note_keywords = { l \in db.note_keywords : l[1] # change.entity_id }]
  ELSE written

\* The try block of one change: what the session holds (pending) when the
\* block ends, whether it ended without exception, and str(e) otherwise.
\* item.fault says that the storage fails once the item has written.
item_session(db, clk, user_id, item) ==
  LET r == push_item(db, clk, user_id, item.change, Works, Works)
  IN IF ~r.ok
     THEN [ok |-> FALSE, pending |-> db,
           error |-> item_error(db, user_id, item.change)]
     ELSE IF item.fault /\ r.db # db
     THEN [ok |-> FALSE, pending |-> PartialWrite(db, r.db, item.change),
           error |-> <<"(sqlalchemy.exc.OperationalError)", None>>]
     ELSE [ok |-> TRUE, pending |-> r.db, error |-> None]

\* A rollback that keeps what the session holds.
keep_pending(db, pending) == pending

\* db.rollback(): the store stays as committed, the pending writes are gone.
rollback(db, pending) == db

\* db.commit(): the pending writes become the store.
commit(db, pending) == pending

\* A failure that is not reported.
append_if_success(results, entity_id, success, error) ==
  IF success
  THEN Append(results, [entity_id |-> entity_id, success |-> success, error |-> error])
  ELSE results

\* results.append(SyncPushItemResult(entity_id=..., success=..., error=...))
append_result(results, entity_id, success, error) ==
  Append(results, [entity_id |-> entity_id, success |-> success, error |-> error])

\* One turn of `for change in request.changes`, on the running state acc
\* (store, results, counts; trail keeps the store after each item).
push_step(acc, clk, user_id, item) ==
  LET s == item_session(acc.db, clk, user_id, item)
      db == IF s.ok THEN commit(acc.db, s.pending) ELSE rollback(acc.db, s.pending)
  IN [db |-> db,
      results |-> append_result(acc.results, item.change.entity_id, s.ok, s.error),
      success_count |-> acc.success_count + (IF s.ok THEN 1 ELSE 0),
      failure_count |-> acc.failure_count + (IF s.ok THEN 0 ELSE 1),
      trail |-> Append(acc.trail, db)]

RECURSIVE push_loop(_, _, _, _)
push_loop(acc, clk, user_id, items) ==
  IF items = <<>> THEN acc
  ELSE push_loop(push_step(acc, clk, user_id, Head(items)), clk, user_id, Tail(items))

\* push_sync(request, current_user, db): the store and the SyncPushResponse.
push_sync(db, clk, user_id, items) ==
  LET acc == push_loop([db |-> db, results |-> <<>>, success_count |-> 0,
                        failure_count |-> 0, trail |-> <<>>], clk, user_id, items)
  IN [db |-> acc.db, trail |-> acc.trail,
      response |-> [success_count |-> acc.success_count,
                    failure_count |-> acc.failure_count,
                    results |-> acc.results,
                    new_checkpoint |-> generate_checkpoint(clk)]]

\* ------------------------------------------- POST /sync/push, the envelope
\* ChangeLogEntry.entity_type: Literal["note", "relation", "reflection", "keyword"]
EntityTypes == {"note", "relation", "reflection", "keyword"}

\* ChangeLogEntry.operation: Literal["insert", "update", "delete"]
Operations == {"insert", "update", "delete"}

\* A change that validates as a ChangeLogEntry.
ChangeLogEntry(change) ==
  /\ change.entity_type \in EntityTypes
  /\ change.operation \in Operations

\* A request that accepts any number of changes.
SyncPushRequestUnbounded(changes) ==
  \A i \in 1..Len(changes) : ChangeLogEntry(changes[i])

\* A body that validates as a SyncPushRequest:
\* changes: List[ChangeLogEntry] = Field(..., min_items=1, max_items=100)
SyncPushRequest(changes) ==
  /\ Len(changes) >= 1
  /\ Len(changes) <= MaxItems
  /\ \A i \in 1..Len(changes) : ChangeLogEntry(changes[i])

\* The answer of a request that push_sync handled.
Answered(r) ==
  [status |-> 200, db |-> r.db, trail |-> r.trail, response |-> r.response]

\* @router.post("/push"): the body is validated against SyncPushRequest
\* before push_sync is called; a body that does not validate is answered 422
\* and push_sync does not run.
post_sync_push(db, clk, user_id, items) ==
  IF ~SyncPushRequest([i \in 1..Len(items) |-> items[i].change])
  THEN [status |-> 422, db |-> db, trail |-> <<>>,
        response |-> [success_count |-> 0, failure_count |-> 0, results |-> <<>>,
                      new_checkpoint |-> None]]
  ELSE Answered(push_sync(db, clk, user_id, items))

\* datetime.isoformat() of a stored timestamp
IsoFormat(t) == <<t, "+00:00">>

\* checkpoint_dt: None without a checkpoint, else the parsed instant.
CheckpointDt(checkpoint) == IF checkpoint = None THEN NULL ELSE FromIso(checkpoint)

\* `if checkpoint_dt: query.filter(col > checkpoint_dt)`
Since(checkpoint_dt, t) == checkpoint_dt = NULL \/ t > checkpoint_dt

\* The notes of the user changed since the checkpoint.
NotesSince(db, user_id, checkpoint_dt) ==
  { id \in DOMAIN db.notes :
      /\ db.notes[id].user_id = user_id
      /\ Since(checkpoint_dt, db.notes[id].server_timestamp) }

\* The relations joined to a from-note of the user, created since the
\* checkpoint.
RelationsSince(db, user_id, checkpoint_dt) ==
  { id \in DOMAIN db.relations :
      /\ OwnedNote(db, user_id, db.relations[id].from_note_id)
      /\ Since(checkpoint_dt, db.relations[id].created_at) }

\* The reflections of the user updated since the checkpoint.
ReflectionsSince(db, user_id, checkpoint_dt) ==
  { key \in DOMAIN db.reflections :
      /\ key[1] = user_id
      /\ Since(checkpoint_dt, db.reflections[key].updated_at) }

\* query.order_by(col).limit(cap).all(): the pages the query may return, the
\* first `cap` rows by ts, rows with equal ts in any order.
Pages(rows, ts, cap) ==
  { P \in SUBSET rows :
      /\ Cardinality(P) = IF Cardinality(rows) < cap THEN Cardinality(rows) ELSE cap
      /\ \A x \in P, y \in rows \ P : ts[x] <= ts[y] }

\* A Delta that reports every note row as an upsert.
NoteUpsertDelta(db, id) ==
  LET note == db.notes[id]
  IN [entity_type |-> "note", entity_id |-> id,
      operation |-> "upsert",
      data |-> [id |-> id, body |-> note.body, importance |-> note.importance,
                source_url |-> note.source_url, image_path |-> note.image_path,
                created_at |-> IsoFormat(note.created_at),
                updated_at |-> IsoFormat(note.updated_at),
                deleted_at |-> None],
      updated_at |-> note.updated_at,
      server_timestamp |-> note.server_timestamp]

\* The Delta of a note row.
NoteDelta(db, id) ==
  LET note == db.notes[id]
  IN [entity_type |-> "note", entity_id |-> id,
      operation |-> IF note.deleted_at # NULL THEN "delete" ELSE "upsert",
      data |-> IF note.deleted_at # NULL THEN None
               ELSE [id |-> id, body |-> note.body, importance |-> note.importance,
                     source_url |-> note.source_url, image_path |-> note.image_path,
                     created_at |-> IsoFormat(note.created_at),
                     updated_at |-> IsoFormat(note.updated_at),
                     deleted_at |-> None],
      updated_at |-> note.updated_at,
      server_timestamp |-> note.server_timestamp]

\* The Delta of a relation row: created_at stands for both timestamps.
RelationDelta(db, id) ==
  LET relation == db.relations[id]
  IN [entity_type |-> "relation", entity_id |-> id, operation |-> "upsert",
      data |-> [id |-> id, from_note_id |-> relation.from_note_id,
                to_note_id |-> relation.to_note_id,
                relation_type |-> relation.relation_type,
                created_at |-> IsoFormat(relation.created_at)],
      updated_at |-> relation.created_at,
      server_timestamp |-> relation.created_at]

\* The Delta of a reflection row: updated_at stands for server_timestamp.
ReflectionDelta(db, key) ==
  LET reflection == db.reflections[key]
  IN [entity_type |-> "reflection", entity_id |-> key[2], operation |-> "upsert",
      data |-> [date |-> key[2], content |-> reflection.content,
                created_at |-> IsoFormat(reflection.created_at),
                updated_at |-> IsoFormat(reflection.updated_at)],
      updated_at |-> reflection.updated_at,
      server_timestamp |-> reflection.updated_at]

\* The SyncPullResponse built from the three pages the queries returned;
\* `changes` is kept as its deltas by (entity_type, key of the row).
PullResponse(db, clk, noteIds, relationIds, reflectionKeys) ==
  LET entries == { <<"note", id>> : id \in noteIds }
                 \cup { <<"relation", id>> : id \in relationIds }
                 \cup { <<"reflection", key>> : key \in reflectionKeys }
      changes == [ e \in entries |->
                     CASE e[1] = "note" -> NoteDelta(db, e[2])
                       [] e[1] = "relation" -> RelationDelta(db, e[2])
                       [] OTHER -> ReflectionDelta(db, e[2]) ]
      total == Cardinality(noteIds) + Cardinality(relationIds)
               + Cardinality(reflectionKeys)
  IN [has_more |-> total >= 3 * PageCap,
      changes |-> changes,
      new_checkpoint |-> generate_checkpoint(clk),
      total_changes |-> total]

\* pull_sync(request, current_user, db): the responses it may give.
pull_sync(db, clk, user_id, checkpoint) ==
  LET checkpoint_dt == CheckpointDt(checkpoint)
  IN { PullResponse(db, clk, n, r, f) :
         n \in Pages(NotesSince(db, user_id, checkpoint_dt),
                     [id \in DOMAIN db.notes |-> db.notes[id].server_timestamp],
                     PageCap),
         r \in Pages(RelationsSince(db, user_id, checkpoint_dt),
                     [id \in DOMAIN db.relations |-> db.relations[id].created_at],
                     PageCap),
         f \in Pages(ReflectionsSince(db, user_id, checkpoint_dt),
                     [key \in DOMAIN db.reflections |-> db.reflections[key].updated_at],
                     PageCap) }

\* ------------------------------------------------------------------ Init
NoRequest == [entity_type |-> "none", operation |-> "none", user_id |-> "none",
              entity_id |-> "none", ts |-> NULL, body |-> None, success |-> TRUE]

Idle == [pc |-> "idle"]

NoSession == [state |-> "none"]

\* The empty store, before any request.
Init ==
  /\ now = 1
  /\ notes = <<>>
  /\ keywords = <<>>
  /\ note_keywords = {}
  /\ relations = <<>>
  /\ reflections = <<>>
  /\ last = NoRequest
  /\ pushed = <<>>
  /\ txn = [w \in Workers |-> Idle]
  /\ sess = NoSession
  /\ weekly_reports = <<>>

\* The timestamp a change competes with: the payload's updated_at, or for a
\* delete its deleted_at (NULL when absent).
IncomingTs(change) ==
  IF "updated_at" \in DOMAIN change.payload THEN FromIso(change.payload.updated_at)
  ELSE IF "deleted_at" \in DOMAIN change.payload
  THEN ParseDeletedAt(change.payload.deleted_at)
  ELSE NULL

\* The SyncPushItemResult of a change, with what the change carried.
ItemResult(user_id, change, ok) ==
  [entity_type |-> change.entity_type, operation |-> change.operation,
   user_id |-> user_id, entity_id |-> change.entity_id,
   ts |-> IncomingTs(change),
   body |-> IF "body" \in DOMAIN change.payload THEN change.payload.body ELSE None,
   success |-> ok]

\* The store becomes db (the commit of an item, or its rollback).
Store(db) ==
  /\ notes' = db.notes
  /\ keywords' = db.keywords
  /\ note_keywords' = db.note_keywords
  /\ relations' = db.relations
  /\ reflections' = db.reflections

\* POST /sync/push by user_id with the single change `change`: the item is
\* processed and committed (or rolled back) and its result reported.
PushItem(user_id, change, embOk, kwOk) ==
  \E r \in {push_item(DB, now, user_id, change, embOk, kwOk)} :
     /\ Store(r.db)
     /\ last' = ItemResult(user_id, change, r.ok)

\* The wall clock moves: forward, or backward (an adjustment of the clock).
Tick ==
  /\ now' \in ClockValues \ {now}
  /\ UNCHANGED <<notes, keywords, note_keywords, relations, reflections, last,
                 pushed, txn, sess, weekly_reports>>

\* ------------------------------------------- Spec: the sync of one note
\* Two users push inserts, updates and deletes of the note "n1".
TheNote == "n1"

PushNoteWrite ==
  \E u \in Users, op \in {"insert", "update"}, p \in NotePayloads,
     embOk, kwOk \in {Works, Fails} :
    /\ PushItem(u, [entity_type |-> "note", entity_id |-> TheNote,
                    operation |-> op, payload |-> p], embOk, kwOk)
    /\ UNCHANGED <<now, pushed, txn, sess, weekly_reports>>

PushNoteDelete ==
  \E u \in Users, p \in DeletePayloads :
    /\ PushItem(u, [entity_type |-> "note", entity_id |-> TheNote,
                    operation |-> "delete", payload |-> p], Works, Works)
    /\ UNCHANGED <<now, pushed, txn, sess, weekly_reports>>

Next == PushNoteWrite \/ PushNoteDelete \/ Tick

Spec == Init /\ [][Next]_vars

\* ------------------------------------------------------- claims on Spec
\* The step is a push of a note insert/update for note id.
IsNoteWrite(req, id) ==
  /\ req.entity_type = "note"
  /\ req.operation \in {"insert", "update"}
  /\ req.entity_id = id

\* The step is a push of a note delete for note id.
IsNoteDelete(req, id) ==
  /\ req.entity_type = "note"
  /\ req.operation = "delete"
  /\ req.entity_id = id

\* The keyword ids linked to note id.
LinksOf(links, id) == { l[2] : l \in { x \in links : x[1] = id } }

\* The store after user u pushes the note write p for note id (derivation
\* succeeding), starting from store db.
AfterWrite(db, u, id, p) ==
  push_item(db, now, u, [entity_type |-> "note", entity_id |-> id,
                         operation |-> "update", payload |-> p], Works, Works).db

\* C2: a note insert/update pushed for an existing note with incoming
\* updated_at <= stored updated_at (ties included) is reported success and
\* leaves the note row (embedding included) and its keyword links unchanged.
C2_StaleWriteDropped ==
  [][ \A id \in DOMAIN notes :
        ( IsNoteWrite(last', id) /\ last'.ts <= notes[id].updated_at )
        => /\ last'.success
           /\ id \in DOMAIN notes'
           /\ notes'[id] = notes[id]
           /\ LinksOf(note_keywords', id) = LinksOf(note_keywords, id)
           /\ keywords' = keywords ]_vars

\* C2 witness: a write with the stored updated_at (a tie) carrying another
\* body has been pushed and reported as success.
C2_Witness ==
  \E id \in DOMAIN notes :
    /\ IsNoteWrite(last, id)
    /\ last.success
    /\ last.ts = notes[id].updated_at
    /\ last.body # notes[id].body

\* C4 (as claimed): a note insert, update or delete pushed by a user other
\* than the note's owner leaves the note row and its keyword links unchanged.
C4_ForeignNoteUntouched ==
  [][ \A id \in DOMAIN notes :
        ( (IsNoteWrite(last', id) \/ IsNoteDelete(last', id))
          /\ last'.user_id # notes[id].user_id )
        => /\ id \in DOMAIN notes'
           /\ notes'[id] = notes[id]
           /\ LinksOf(note_keywords', id) = LinksOf(note_keywords, id) ]_vars

\* C5 (as claimed): once a note is soft-deleted with deleted_at = D, a pushed
\* write with updated_at <= D is dropped: deleted_at stays set and the body
\* stays as it was.
C5_StaleUpdateAfterDelete ==
  [][ \A id \in DOMAIN notes :
        ( /\ notes[id].deleted_at # NULL
          /\ IsNoteWrite(last', id)
          /\ last'.ts <= notes[id].deleted_at )
        => /\ notes'[id].deleted_at # NULL
           /\ notes'[id].body = notes[id].body ]_vars

\* C6 (as claimed): once a note is soft-deleted with deleted_at = D, a pushed
\* update with updated_at > D (carrying no deleted_at of its own) is applied,
\* whatever the stored updated_at: deleted_at is cleared and the body replaced.
C6_NewerUpdateResurrects ==
  \A id \in DOMAIN notes, u \in Users, p \in NotePayloads :
    ( /\ notes[id].deleted_at # NULL
      /\ ParseDeletedAt(p.deleted_at) = NULL
      /\ FromIso(p.updated_at) > notes[id].deleted_at )
    => /\ AfterWrite(DB, u, id, p).notes[id].deleted_at = NULL
       /\ AfterWrite(DB, u, id, p).notes[id].body = p.body

\* C7 (as claimed): a note delete whose incoming timestamp is <= the stored
\* updated_at is dropped: success is reported and deleted_at and
\* server_timestamp stay as they were.
C7_DeleteFollowsLww ==
  [][ \A id \in DOMAIN notes :
        ( /\ IsNoteDelete(last', id)
          /\ last'.ts # NULL
          /\ last'.ts <= notes[id].updated_at )
        => /\ last'.success
           /\ notes'[id].deleted_at = notes[id].deleted_at
           /\ notes'[id].server_timestamp = notes[id].server_timestamp ]_vars

\* C9 (as claimed): every applied mutation of an existing note (a step that
\* changes its row) strictly increases the note's server_timestamp.
C9_ServerTimestampIncreases ==
  [][ \A id \in DOMAIN notes :
        notes'[id] # notes[id]
        => notes'[id].server_timestamp > notes[id].server_timestamp ]_vars

\* ------------------------------- SpecLww: the writes of one note, in order
\* Up to MaxWrites inserts/updates of the note "n1" are pushed one after the
\* other, by either user; `pushed` keeps what each write carried.
PushRecordedWrite ==
  /\ Len(pushed) < MaxWrites
  /\ \E u \in Users, op \in {"insert", "update"}, p \in NotePayloads :
       /\ PushItem(u, [entity_type |-> "note", entity_id |-> TheNote,
                       operation |-> op, payload |-> p], Works, Works)
       /\ pushed' = Append(pushed, [updated_at |-> FromIso(p.updated_at),
                                    body |-> p.body, ok |-> last'.success])
       /\ UNCHANGED <<now, txn, sess, weekly_reports>>

NextLww == PushRecordedWrite

SpecLww == Init /\ [][NextLww]_vars

\* C1: when two note writes W1, W2 to the same note id with
\* W1.updated_at < W2.updated_at have been pushed one after the other, in
\* either order, the stored body is W2.body (stated for the writes pushed to
\* a note so far: the write whose updated_at is above every other's is stored).
C1_LwwEitherOrder ==
  \A j \in 1..Len(pushed) :
    ( /\ Len(pushed) >= 2
      /\ \A i \in 1..Len(pushed) : i # j => pushed[i].updated_at < pushed[j].updated_at )
    => /\ TheNote \in DOMAIN notes
       /\ notes[TheNote].body = pushed[j].body
       /\ notes[TheNote].updated_at = pushed[j].updated_at

\* C1 witness: exactly two writes were pushed, the newer one first (W2 then
\* W1), with different bodies, and the stored body is the newer write's.
C1_Witness ==
  /\ Len(pushed) = 2
  /\ pushed[1].updated_at > pushed[2].updated_at
  /\ pushed[1].body # pushed[2].body
  /\ notes[TheNote].body = pushed[1].body

\* ------------------------------ SpecReflection: the sync of reflections
\* Two users push inserts, updates and deletes of their reflections; the
\* change's entity_id is the reflection's date.
PushReflectionWrite ==
  \E u \in Users, op \in {"insert", "update"}, p \in ReflectionPayloads :
    /\ PushItem(u, [entity_type |-> "reflection", entity_id |-> p.date,
                    operation |-> op, payload |-> p], Works, Works)
    /\ UNCHANGED <<now, pushed, txn, sess, weekly_reports>>

PushReflectionDelete ==
  \E u \in Users, d \in Dates, withDate \in BOOLEAN :
    /\ PushItem(u, [entity_type |-> "reflection", entity_id |-> d,
                    operation |-> "delete",
                    payload |-> IF withDate THEN [date |-> d]
                                ELSE [deleted_at |-> None]], Works, Works)
    /\ UNCHANGED <<now, pushed, txn, sess, weekly_reports>>

NextReflection == PushReflectionWrite \/ PushReflectionDelete

SpecReflection == Init /\ [][NextReflection]_vars

\* The step is a push of a reflection insert/update by user u for date d.
IsReflectionWrite(req, u, d) ==
  /\ req.entity_type = "reflection"
  /\ req.operation \in {"insert", "update"}
  /\ req.user_id = u
  /\ req.entity_id = d

\* C8 (as claimed): a reflection insert/update for an existing (user_id, date)
\* with incoming updated_at <= stored updated_at is dropped: success is
\* reported and the stored content and updated_at stay as they were.
C8_ReflectionStaleWriteDropped ==
  [][ \A key \in DOMAIN reflections :
        ( IsReflectionWrite(last', key[1], key[2])
          /\ last'.ts <= reflections[key].updated_at )
        => /\ last'.success
           /\ key \in DOMAIN reflections'
           /\ reflections'[key] = reflections[key] ]_vars

\* --------------------- SpecConc: two push requests writing the same note
\* Each worker serves one push item at a time in its own database session:
\* it reads the existing row (ConcRead), and later compares, derives, flushes
\* and commits (ConcWrite).  Nothing orders the steps of the two workers.
ConcPayloads ==
  { p \in NotePayloads : p.deleted_at = None }

\* The query of process_note_insert, line 73: the worker's session loads the
\* row of the note, if there is one.
ConcRead(w) ==
  /\ txn[w].pc = "idle"
  /\ Len(pushed) + Cardinality({ v \in Workers : txn[v].pc = "read" }) < MaxWrites
  /\ \E u \in Users, p \in ConcPayloads :
       txn' = [txn EXCEPT ![w] = [pc |-> "read", user_id |-> u, payload |-> p,
                                  seen |-> DB]]
  /\ UNCHANGED <<now, notes, keywords, note_keywords, relations, reflections,
                 last, pushed, sess, weekly_reports>>

\* The rest of process_note_insert and the commit (or rollback) of push_sync.
ConcWrite(w) ==
  /\ txn[w].pc = "read"
  /\ \E r \in {note_insert(txn[w].seen, DB, now, txn[w].user_id, TheNote,
                           txn[w].payload, Works, Works)} :
       /\ Store(r.db)
       /\ pushed' = Append(pushed,
                      [updated_at |-> FromIso(txn[w].payload.updated_at),
                       body |-> txn[w].payload.body, ok |-> r.ok])
  /\ txn' = [txn EXCEPT ![w] = Idle]
  /\ UNCHANGED <<now, last, sess, weekly_reports>>

NextConc == \E w \in Workers : ConcRead(w) \/ ConcWrite(w)

SpecConc == Init /\ [][NextConc]_vars

\* C3 (as claimed): when push requests writing the same note ran concurrently
\* and all have completed, the note stored is the write with the highest
\* updated_at among those reported as success.
C3_ConcurrentLww ==
  (\A w \in Workers : txn[w].pc = "idle")
  => \A j \in 1..Len(pushed) :
       ( /\ pushed[j].ok
         /\ \A i \in 1..Len(pushed) :
              i # j => pushed[i].updated_at < pushed[j].updated_at )
       => /\ TheNote \in DOMAIN notes
          /\ notes[TheNote].body = pushed[j].body
          /\ notes[TheNote].updated_at = pushed[j].updated_at

\* ------------------------------------ SpecPull: a client's pull loop
\* The users fill the store with notes, relations and reflections; then one
\* client pulls from a null checkpoint, each time with the new_checkpoint of
\* the previous response, until has_more is false.  No push runs during the
\* loop; the clock may move.
PullNotePayloads ==
  { p \in NotePayloads : p.body = "a" /\ FromIso(p.updated_at) = 1 /\ p.deleted_at = None }

PullRelationPayloads ==
  { p \in RelationPayloads : p.from_note_id = p.to_note_id /\ FromIso(p.created_at) = 2 }

PullReflectionPayloads ==
  { p \in ReflectionPayloads : p.content = "x" /\ p.updated_at[2] = "Z"
                               /\ FromIso(p.updated_at) <= 2 }

FillNote ==
  /\ sess.state = "none"
  /\ \E u \in Users, id \in NoteIds, p \in PullNotePayloads :
       \E r \in {push_item(DB, now, u, [entity_type |-> "note", entity_id |-> id,
                           operation |-> "insert", payload |-> p], Works, Works)} :
         Store(r.db)
  /\ UNCHANGED <<now, last, pushed, txn, sess, weekly_reports>>

FillRelation ==
  /\ sess.state = "none"
  /\ \E u \in Users, id \in RelIds, p \in PullRelationPayloads :
       \E r \in {push_item(DB, now, u, [entity_type |-> "relation", entity_id |-> id,
                           operation |-> "insert", payload |-> p], Works, Works)} :
         Store(r.db)
  /\ UNCHANGED <<now, last, pushed, txn, sess, weekly_reports>>

FillReflection ==
  /\ sess.state = "none"
  /\ \E u \in Users, p \in PullReflectionPayloads :
       \E r \in {push_item(DB, now, u, [entity_type |-> "reflection",
                           entity_id |-> p.date, operation |-> "insert",
                           payload |-> p], Works, Works)} :
         Store(r.db)
  /\ UNCHANGED <<now, last, pushed, txn, sess, weekly_reports>>

\* The client starts its loop with checkpoint = null.
StartPull ==
  /\ sess.state = "none"
  /\ \E u \in Users :
       sess' = [state |-> "pulling", user_id |-> u, checkpoint |-> None, got |-> {}]
  /\ UNCHANGED <<now, notes, keywords, note_keywords, relations, reflections,
                 last, pushed, txn, weekly_reports>>

\* One POST /sync/pull of the loop: the client keeps the deltas, takes over
\* new_checkpoint and stops when has_more is false.
PullStep ==
  /\ sess.state = "pulling"
  /\ \E resp \in pull_sync(DB, now, sess.user_id, sess.checkpoint) :
       sess' = [sess EXCEPT
                  !.state = IF resp.has_more THEN "pulling" ELSE "done",
                  !.checkpoint = resp.new_checkpoint,
                  !.got = @ \cup DOMAIN resp.changes]
  /\ UNCHANGED <<now, notes, keywords, note_keywords, relations, reflections,
                 last, pushed, txn, weekly_reports>>

NextPull ==
  FillNote \/ FillRelation \/ FillReflection \/ StartPull \/ PullStep \/ Tick

SpecPull == Init /\ [][NextPull]_vars

\* What the user owns: notes, relations (by their from-note) and reflections.
OwnedEntities(user_id) ==
  { <<"note", id>> : id \in NotesSince(DB, user_id, NULL) }
  \cup { <<"relation", id>> : id \in RelationsSince(DB, user_id, NULL) }
  \cup { <<"reflection", key>> : key \in ReflectionsSince(DB, user_id, NULL) }

\* C10 (as claimed): when the pull loop started from a null checkpoint ends
\* (has_more false), the client has received a delta for every note, relation
\* and reflection the user owns.
C10_PullLoopComplete ==
  sess.state = "done" => OwnedEntities(sess.user_id) \subseteq sess.got

\* ----------------------------- SpecDelta: pulls with any checkpoint
\* The users fill the store; then a client pulls with a checkpoint of its
\* choice (null, or any instant in either spelling) and goes on pulling, each
\* time with the new_checkpoint of the response before.  `sess` keeps the
\* checkpoint sent last, the response received and whether the client started
\* with a null checkpoint (an initial sync).  No push runs after the first pull; the clock may
\* move.
Checkpoints == {None} \cup (ClientTimes \X {"+00:00"}) \cup {<<1, "Z">>}

\* Relations between any two notes, dated by a client whose clock is ahead.
DeltaRelationPayloads ==
  { p \in RelationPayloads : FromIso(p.created_at) = MaxTs }

DeltaReflectionPayloads ==
  { p \in ReflectionPayloads : p.content = "x" /\ p.updated_at = <<2, "Z">> }

\* A response without deltas that announces no more.
IsEmpty(resp) == resp.total_changes = 0 /\ ~resp.has_more

SeedRelation ==
  /\ sess.state = "none"
  /\ \E u \in Users, id \in RelIds, p \in DeltaRelationPayloads :
       \E r \in {push_item(DB, now, u, [entity_type |-> "relation", entity_id |-> id,
                           operation |-> "insert", payload |-> p], Works, Works)} :
         Store(r.db)
  /\ UNCHANGED <<now, last, pushed, txn, sess, weekly_reports>>

\* POST /sync/pull by a user with the checkpoint it holds.
AskPull ==
  /\ sess.state = "none"
  /\ \E u \in Users, cp \in Checkpoints :
       \E resp \in pull_sync(DB, now, u, cp) :
         sess' = [state |-> "answered", user_id |-> u, initial |-> cp = None,
                  checkpoint |-> cp, resp |-> resp]
  /\ UNCHANGED <<now, notes, keywords, note_keywords, relations, reflections,
                 last, pushed, txn, weekly_reports>>

\* The next POST /sync/pull of the same client, with the new_checkpoint of
\* its last response.
AskAgain ==
  /\ sess.state = "answered"
  /\ \E resp \in pull_sync(DB, now, sess.user_id, sess.resp.new_checkpoint) :
       sess' = [sess EXCEPT !.checkpoint = sess.resp.new_checkpoint,
                            !.resp = resp]
  /\ UNCHANGED <<now, notes, keywords, note_keywords, relations, reflections,
                 last, pushed, txn, weekly_reports>>

SeedReflection ==
  /\ sess.state = "none"
  /\ \E u \in Users, p \in DeltaReflectionPayloads :
       \E r \in {push_item(DB, now, u, [entity_type |-> "reflection",
                           entity_id |-> p.date, operation |-> "insert",
                           payload |-> p], Works, Works)} :
         Store(r.db)
  /\ UNCHANGED <<now, last, pushed, txn, sess, weekly_reports>>

NextDelta ==
  FillNote \/ SeedRelation \/ SeedReflection \/ AskPull \/ AskAgain \/ Tick

SpecDelta == Init /\ [][NextDelta]_vars

\* The server_timestamp values of the deltas of a response.
DeltaTimestamps(resp) ==
  { resp.changes[e].server_timestamp : e \in DOMAIN resp.changes }

\* C11 (as claimed): the new_checkpoint of a pull response is the maximum
\* server_timestamp among the rows it returns, and the checkpoint of the
\* request when it returns none.
C11_CheckpointIsMaxReturned ==
  sess.state = "answered"
  => IF DeltaTimestamps(sess.resp) = {}
     THEN CheckpointDt(sess.resp.new_checkpoint) = CheckpointDt(sess.checkpoint)
     ELSE \A t \in DeltaTimestamps(sess.resp) :
            /\ t <= FromIso(sess.resp.new_checkpoint)
            /\ FromIso(sess.resp.new_checkpoint) \in DeltaTimestamps(sess.resp)

\* The number of deltas of one entity type in a response.
TypeCount(resp, entity_type) ==
  Cardinality({ e \in DOMAIN resp.changes : e[1] = entity_type })

\* C12 (as claimed): has_more is true exactly when at least one entity type
\* returned as many rows as its page cap.
C12_HasMoreWhenAnySaturated ==
  sess.state = "answered"
  => ( sess.resp.has_more
       <=> \E entity_type \in {"note", "relation", "reflection"} :
             TypeCount(sess.resp, entity_type) = PageCap )

\* The checkpoint instant c is later than everything the server has written:
\* it is no earlier than any instant the server clock shows and later than
\* every stored server_timestamp.
LaterThanEveryWrite(c) ==
  /\ c >= MaxClock
  /\ \A id \in DOMAIN notes : notes[id].server_timestamp < c

\* C15 (as claimed): a pull with a non-null checkpoint C returns only rows
\* whose server_timestamp is > C, and with C later than every stored
\* server_timestamp it returns no change, total_changes = 0 and has_more
\* false.
C15_OnlyRowsAfterCheckpoint ==
  (sess.state = "answered" /\ CheckpointDt(sess.checkpoint) # NULL)
  => /\ \A t \in DeltaTimestamps(sess.resp) : t > CheckpointDt(sess.checkpoint)
     /\ LaterThanEveryWrite(CheckpointDt(sess.checkpoint))
        => (DOMAIN sess.resp.changes = {} /\ IsEmpty(sess.resp))

\* C16 (as claimed, its last part): with no new writes, once a client that
\* started from a null checkpoint and pulls with the new_checkpoint of the
\* response before has got an empty response (total_changes = 0, has_more
\* false), its next responses are empty too.
C16_EmptyStaysEmpty ==
  [][ ( /\ sess.state = "answered"
        /\ sess.initial
        /\ IsEmpty(sess.resp) )
      => IsEmpty(sess'.resp) ]_vars

\* C17: a pull by user U holds no note and no reflection of another user and
\* no relation with an endpoint note of another user.
C17_PullUserIsolation ==
  sess.state = "answered"
  => \A e \in DOMAIN sess.resp.changes :
       CASE e[1] = "note" -> notes[e[2]].user_id = sess.user_id
         [] e[1] = "relation" ->
              /\ notes[relations[e[2]].from_note_id].user_id = sess.user_id
              /\ notes[relations[e[2]].to_note_id].user_id = sess.user_id
         [] OTHER -> e[2][1] = sess.user_id

\* C17 witness: a pull returned a note, a relation and a reflection while the
\* store holds a note and a reflection of another user.
C17_Witness ==
  /\ sess.state = "answered"
  /\ \A entity_type \in {"note", "relation", "reflection"} :
       TypeCount(sess.resp, entity_type) >= 1
  /\ \E id \in DOMAIN notes : notes[id].user_id # sess.user_id
  /\ \E key \in DOMAIN reflections : key[1] # sess.user_id

\* ------------------- SpecCkpt: a push in progress while a checkpoint is issued
\* A push item takes two steps: the handler runs and stamps the row with the
\* clock (the session holds the result), then push_sync commits.  A pull of
\* another request reads the committed store and hands out new_checkpoint.
\* The clock is strictly monotonic here: every reading is later than the one
\* before.  `sess` keeps the checkpoint issued and the notes visible then.
CkptChanges ==
  { [entity_type |-> "note", entity_id |-> id, operation |-> "insert", payload |-> p] :
      id \in NoteIds, p \in PullNotePayloads }
  \cup { [entity_type |-> "note", entity_id |-> id, operation |-> "delete",
          payload |-> [deleted_at |-> None]] : id \in NoteIds }

\* The handler of one item runs in worker w's session, reading the clock.
CkptProcess(w) ==
  /\ now <= MaxReads
  /\ \A v \in Workers : txn[v].pc = "idle"
  /\ \E u \in Users, change \in CkptChanges :
       \E r \in {push_item(DB, now, u, change, Works, Works)} :
         txn' = [txn EXCEPT ![w] = [pc |-> "flushed", ok |-> r.ok, db |-> r.db]]
  /\ now' = now + 1
  /\ UNCHANGED <<notes, keywords, note_keywords, relations, reflections, last,
                 pushed, sess, weekly_reports>>

\* db.commit() of the item (db.rollback() when the handler raised).
CkptCommit(w) ==
  /\ txn[w].pc = "flushed"
  /\ Store(IF txn[w].ok THEN txn[w].db ELSE DB)
  /\ txn' = [txn EXCEPT ![w] = Idle]
  /\ UNCHANGED <<now, last, pushed, sess, weekly_reports>>

\* A pull by a user: it reads what is committed and issues new_checkpoint.
CkptPull ==
  /\ now <= MaxReads
  /\ sess.state = "none"
  /\ \E u \in Users :
       \E resp \in pull_sync(DB, now, u, None) :
         sess' = [state |-> "issued", user_id |-> u,
                  checkpoint |-> resp.new_checkpoint, visible |-> notes]
  /\ now' = now + 1
  /\ UNCHANGED <<notes, keywords, note_keywords, relations, reflections, last,
                 pushed, txn, weekly_reports>>

NextCkpt == CkptPull \/ \E w \in Workers : CkptProcess(w) \/ CkptCommit(w)

SpecCkpt == Init /\ [][NextCkpt]_vars

\* C13 (as claimed): once a checkpoint C has been issued to a user, every
\* note write of that user that became visible after C was issued carries a
\* server_timestamp > C (so that a pull with C returns it).
C13_NoWriteBehindCheckpoint ==
  sess.state = "issued"
  => \A id \in DOMAIN notes :
       ( /\ notes[id].user_id = sess.user_id
         /\ (id \notin DOMAIN sess.visible \/ sess.visible[id] # notes[id]) )
       => notes[id].server_timestamp > FromIso(sess.checkpoint)

\* ------------------------------ SpecRound: push, then pull what was pushed
\* The users fill the store; a client pulls and keeps new_checkpoint; at a
\* later instant of the server clock it pushes one change; then it pulls with
\* the checkpoint it kept.  `sess` keeps the change pushed, whether its
\* entity was there before, and the response of the second pull.
RoundChanges ==
  { [entity_type |-> "note", entity_id |-> id, operation |-> "update", payload |-> p] :
      id \in NoteIds,
      p \in { q \in NotePayloads : q.body = "b" /\ FromIso(q.updated_at) = 2
                                   /\ q.deleted_at = None } }
  \cup { [entity_type |-> "note", entity_id |-> id, operation |-> "delete",
          payload |-> [deleted_at |-> None]] : id \in NoteIds }
  \cup { [entity_type |-> "relation", entity_id |-> id, operation |-> "insert",
          payload |-> p] :
           id \in RelIds,
           p \in { q \in RelationPayloads : q.from_note_id = q.to_note_id } }
  \cup { [entity_type |-> "relation", entity_id |-> id, operation |-> "delete",
          payload |-> [id |-> id]] : id \in RelIds }
  \cup { [entity_type |-> "reflection", entity_id |-> p.date,
          operation |-> "update", payload |-> p] :
           p \in { q \in ReflectionPayloads : q.content = "y" /\ q.updated_at[2] = "Z" } }
  \cup { [entity_type |-> "reflection", entity_id |-> d, operation |-> "delete",
          payload |-> [date |-> d]] : d \in Dates }

\* The key of the row a change of user_id addresses.
RowKey(user_id, change) ==
  IF change.entity_type = "reflection"
  THEN <<"reflection", <<user_id, change.entity_id>>>>
  ELSE <<change.entity_type, change.entity_id>>

\* The row with that key is stored and (for notes and relations: through its
\* from-note) owned by the user.
Stored(db, user_id, key) ==
  CASE key[1] = "note" -> OwnedNote(db, user_id, key[2])
    [] key[1] = "relation" ->
         /\ key[2] \in DOMAIN db.relations
         /\ OwnedNote(db, user_id, db.relations[key[2]].from_note_id)
    [] OTHER -> key[2] \in DOMAIN db.reflections

\* The first pull: the client keeps new_checkpoint.
RoundMark ==
  /\ sess.state = "none"
  /\ \E u \in Users :
       \E resp \in pull_sync(DB, now, u, None) :
         sess' = [state |-> "marked", user_id |-> u,
                  checkpoint |-> resp.new_checkpoint]
  /\ UNCHANGED <<now, notes, keywords, note_keywords, relations, reflections,
                 last, pushed, txn, weekly_reports>>

\* The push of one change, at an instant later than the checkpoint.
RoundPush ==
  /\ sess.state = "marked"
  /\ now > FromIso(sess.checkpoint)
  /\ \E change \in RoundChanges :
       \E r \in {push_item(DB, now, sess.user_id, change, Works, Works)} :
         /\ Store(r.db)
         /\ sess' = [state |-> "pushed", user_id |-> sess.user_id,
                     checkpoint |-> sess.checkpoint, change |-> change,
                     ok |-> r.ok,
                     before |-> Stored(DB, sess.user_id, RowKey(sess.user_id, change))]
  /\ UNCHANGED <<now, last, pushed, txn, weekly_reports>>

\* The pull with the checkpoint obtained before the push.
RoundPull ==
  /\ sess.state = "pushed"
  /\ \E resp \in pull_sync(DB, now, sess.user_id, sess.checkpoint) :
       sess' = [state |-> "pulled", user_id |-> sess.user_id,
                checkpoint |-> sess.checkpoint, change |-> sess.change,
                ok |-> sess.ok, before |-> sess.before, resp |-> resp]
  /\ UNCHANGED <<now, notes, keywords, note_keywords, relations, reflections,
                 last, pushed, txn, weekly_reports>>

NextRound ==
  FillNote \/ FillRelation \/ FillReflection \/ RoundMark \/ RoundPush
  \/ RoundPull \/ Tick

SpecRound == Init /\ [][NextRound]_vars

\* The deltas of the response give the row the change describes: an upsert
\* with the pushed data for an insert/update, a delete for a delete.
DeltaTells(resp, key, change) ==
  /\ key \in DOMAIN resp.changes
  /\ IF change.operation = "delete"
     THEN resp.changes[key].operation = "delete"
     ELSE /\ resp.changes[key].operation = "upsert"
          /\ CASE key[1] = "note" -> resp.changes[key].data.body = change.payload.body
               [] key[1] = "relation" ->
                    resp.changes[key].data.from_note_id = change.payload.from_note_id
               [] OTHER -> resp.changes[key].data.content = change.payload.content

\* C14 (as claimed): after a successful push of a change that took effect (a
\* write that is now the stored row, or a delete of a row that was there), a
\* pull with the checkpoint obtained before the push returns a delta that
\* tells it, whatever client timestamps the payload carries.
C14_PushThenPull ==
  (sess.state = "pulled" /\ sess.ok)
  => LET key == RowKey(sess.user_id, sess.change)
         took == IF sess.change.operation = "delete" THEN sess.before
                 ELSE /\ Stored(DB, sess.user_id, key)
                      /\ CASE key[1] = "note" ->
                                notes[key[2]].body = sess.change.payload.body
                           [] key[1] = "relation" ->
                                relations[key[2]].created_at
                                  = FromIso(sess.change.payload.created_at)
                           [] OTHER ->
                                reflections[key[2]].content = sess.change.payload.content
     IN took => DeltaTells(sess.resp, key, sess.change)

\* ------------------------------------ SpecBatch: one push of several changes
\* A user pushes one request of 1..MaxBatch changes to the empty store:
\* complete changes of every entity type, changes whose payload lacks one
\* required field, and writes during which the storage fails.  `last` keeps
\* the request, the store before it, the store after each item and the
\* response.
BatchNote == CHOOSE p \in NotePayloads :
               p.body = "a" /\ FromIso(p.updated_at) = 1 /\ p.deleted_at = None

BatchNoteUpdate == CHOOSE p \in NotePayloads :
                     p.body = "b" /\ FromIso(p.updated_at) = 2 /\ p.deleted_at = None

BatchRelation == [from_note_id |-> "n1", to_note_id |-> "n1",
                  relation_type |-> "related", created_at |-> <<1, "Z">>]

BatchReflection == [date |-> "d1", content |-> "x", created_at |-> <<1, "Z">>,
                    updated_at |-> <<1, "Z">>]

\* The range of a sequence.
Range(seq) == { seq[i] : i \in 1..Len(seq) }

CompleteChanges ==
  { [entity_type |-> "note", entity_id |-> "n1", operation |-> "insert",
     payload |-> BatchNote],
    [entity_type |-> "note", entity_id |-> "n1", operation |-> "update",
     payload |-> BatchNoteUpdate],
    [entity_type |-> "relation", entity_id |-> "r1", operation |-> "insert",
     payload |-> BatchRelation],
    [entity_type |-> "reflection", entity_id |-> "d1", operation |-> "insert",
     payload |-> BatchReflection] }

\* Changes whose payload lacks one field of the handler's required_fields.
IncompleteChanges ==
  { [entity_type |-> "note", entity_id |-> "n2", operation |-> "insert",
     payload |-> Drop(BatchNote, f)] : f \in Range(NoteRequiredFields) }
  \cup { [entity_type |-> "relation", entity_id |-> "r1", operation |-> "insert",
          payload |-> Drop(BatchRelation, f)] : f \in Range(RelationRequiredFields) }
  \cup { [entity_type |-> "reflection", entity_id |-> "d1", operation |-> "update",
          payload |-> Drop(BatchReflection, f)] : f \in Range(ReflectionRequiredFields) }

BatchItems ==
  { [change |-> c, fault |-> FALSE] : c \in CompleteChanges \cup IncompleteChanges }
  \cup { [change |-> c, fault |-> TRUE] :
           c \in { x \in CompleteChanges : x.entity_type = "note" } }

\* POST /sync/push with the changes of `items`.
PushBatch ==
  /\ last = NoRequest
  /\ \E u \in Users, n \in 1..MaxBatch :
       \E items \in [1..n -> BatchItems] :
         \E r \in {push_sync(DB, now, u, items)} :
           /\ Store(r.db)
           /\ last' = [entity_type |-> "batch", user_id |-> u, items |-> items,
                       before |-> DB, trail |-> r.trail, response |-> r.response]
  /\ UNCHANGED <<now, pushed, txn, sess, weekly_reports>>

NextBatch == PushBatch

SpecBatch == Init /\ [][NextBatch]_vars

\* C18: a push response holds one result per change, in the order of the
\* changes and with their entity_id; success_count + failure_count is the
\* number of changes and success_count the number of results with success.
C18_OneResultPerChange ==
  last.entity_type = "batch"
  => LET resp == last.response
         n == Len(last.items)
     IN /\ Len(resp.results) = n
        /\ \A i \in 1..n : resp.results[i].entity_id = last.items[i].change.entity_id
        /\ resp.success_count + resp.failure_count = n
        /\ resp.success_count
             = Cardinality({ i \in 1..n : resp.results[i].success })

\* C18 witness: a push of MaxBatch changes with different entity ids came
\* back with successes and failures.
C18_Witness ==
  /\ last.entity_type = "batch"
  /\ Len(last.items) = MaxBatch
  /\ last.items[1].change.entity_id # last.items[2].change.entity_id
  /\ last.response.success_count >= 1
  /\ last.response.failure_count >= 1

\* The store before item i of the last push.
StoreBefore(i) == IF i = 1 THEN last.before ELSE last.trail[i - 1]

\* C19: when item i of a push fails, the store after item i is the store
\* before it (what earlier items committed stays, nothing of item i remains),
\* every later item is processed, and the store ends as the last item left it.
C19_ItemsCommittedIndependently ==
  last.entity_type = "batch"
  => /\ Len(last.trail) = Len(last.items)
     /\ Len(last.response.results) = Len(last.items)
     /\ \A i \in 1..Len(last.items) :
          ~last.response.results[i].success => last.trail[i] = StoreBefore(i)
     /\ DB = last.trail[Len(last.items)]

\* C19 witness: item 1 wrote a note, item 2 failed in the storage after its
\* handler had written, item 3 succeeded and changed the store.
C19_Witness ==
  /\ last.entity_type = "batch"
  /\ Len(last.items) = 3
  /\ last.response.results[1].success
  /\ "n1" \in DOMAIN last.trail[1].notes
  /\ last.items[2].fault
  /\ last.items[2].change.entity_type = "note"
  /\ ~last.response.results[2].success
  /\ last.response.results[3].success
  /\ last.trail[3] # last.trail[2]

\* The fields an insert/update handler requires of the change's payload
\* (none for a delete).
RequiredOf(change) ==
  CASE change.entity_type = "note" /\ change.operation \in {"insert", "update"} ->
         {"body", "importance", "created_at", "updated_at"}
    [] change.entity_type = "relation" /\ change.operation = "insert" ->
         {"from_note_id", "to_note_id", "relation_type", "created_at"}
    [] change.entity_type = "reflection" /\ change.operation \in {"insert", "update"} ->
         {"date", "content", "created_at", "updated_at"}
    [] OTHER -> {}

\* C20: a note insert/update, relation insert or reflection insert/update
\* whose payload lacks a required field is a failed item whose error names a
\* missing field; it leaves the store as it was and the later items are
\* processed.
C20_MissingFieldFails ==
  last.entity_type = "batch"
  => /\ Len(last.response.results) = Len(last.items)
     /\ \A i \in 1..Len(last.items) :
          LET lacking == RequiredOf(last.items[i].change)
                           \ DOMAIN last.items[i].change.payload
          IN lacking # {}
             => /\ ~last.response.results[i].success
                /\ last.response.results[i].error[2] \in lacking
                /\ last.trail[i] = StoreBefore(i)

\* C20 witness: the first item lacked a field and failed, the second item
\* succeeded and changed the store.
C20_Witness ==
  /\ last.entity_type = "batch"
  /\ Len(last.items) >= 2
  /\ RequiredOf(last.items[1].change) \ DOMAIN last.items[1].change.payload # {}
  /\ ~last.response.results[1].success
  /\ last.response.results[2].success
  /\ last.trail[2] # last.trail[1]

\* ------------------------------ SpecOps: single changes of every type
\* The users insert the notes n1 and n2; then they push, one change per
\* request and MaxPushes requests in all, note updates and deletes, relation
\* inserts and deletes, reflection writes and deletes, while the clock
\* moves.  `last` keeps the change, its result, whether it repeats the change
\* pushed just before by the same user (again), and the number of pushes.
OpsNoteIds == {"n1", "n2"}

OpsRelationPayloads ==
  { p \in RelationPayloads :
      /\ FromIso(p.created_at) = 1
      /\ p.from_note_id \in OpsNoteIds
      /\ p.to_note_id \in OpsNoteIds }

OpsChanges ==
  { [entity_type |-> "note", entity_id |-> "n1", operation |-> "update",
     payload |-> BatchNoteUpdate] }
  \cup { [entity_type |-> "note", entity_id |-> "n1", operation |-> "delete",
          payload |-> [deleted_at |-> None]] }
  \cup { [entity_type |-> "relation", entity_id |-> "r1", operation |-> "insert",
          payload |-> p] : p \in OpsRelationPayloads }
  \cup { [entity_type |-> "relation", entity_id |-> "r1", operation |-> "delete",
          payload |-> <<>>] }
  \cup { [entity_type |-> "reflection", entity_id |-> "d1", operation |-> op,
          payload |-> BatchReflection] : op \in {"insert", "update"} }
  \cup { [entity_type |-> "reflection", entity_id |-> "d1", operation |-> "delete",
          payload |-> <<>>] }

\* The number of pushes of SpecOps so far.
OpsCount == IF last.entity_type = "op" THEN last.n ELSE 0

\* A user inserts the note n1 or n2 (before the pushes that are followed).
OpsSeed ==
  /\ last = NoRequest
  /\ \E u \in Users, id \in OpsNoteIds :
       \E r \in {push_item(DB, now, u, [entity_type |-> "note", entity_id |-> id,
                           operation |-> "insert", payload |-> BatchNote],
                           Works, Works)} :
         Store(r.db)
  /\ UNCHANGED <<now, last, pushed, txn, sess, weekly_reports>>

\* POST /sync/push by user u with the single change c.
OpsPush ==
  /\ OpsCount < MaxPushes
  /\ \E u \in Users, c \in OpsChanges :
       \E r \in {push_item(DB, now, u, c, Works, Works)} :
         /\ Store(r.db)
         /\ last' = [entity_type |-> "op", user_id |-> u, change |-> c,
                     success |-> r.ok,
                     again |-> last.entity_type = "op" /\ last.user_id = u
                               /\ last.change = c,
                     n |-> OpsCount + 1]
  /\ UNCHANGED <<now, pushed, txn, sess, weekly_reports>>

NextOps == OpsSeed \/ OpsPush \/ Tick

SpecOps == Init /\ [][NextOps]_vars

\* The step is a push of SpecOps of a change of that type and operation.
IsOp(req, entity_type, operation) ==
  /\ req.entity_type = "op"
  /\ req.change.entity_type = entity_type
  /\ req.change.operation = operation

\* C21 (as claimed): a relation insert whose from_note_id or to_note_id does
\* not name a note owned by the pushing user is reported as failed and
\* creates no relation row.
C21_RelationNeedsOwnedNotes ==
  [][ ( /\ last' # last
        /\ IsOp(last', "relation", "insert")
        /\ \/ ~OwnedNote(DB, last'.user_id, last'.change.payload.from_note_id)
           \/ ~OwnedNote(DB, last'.user_id, last'.change.payload.to_note_id) )
      => /\ ~last'.success
         /\ relations' = relations ]_vars

\* C22: a relation insert whose id exists is reported success and leaves the
\* store as it was; so does a relation delete whose id does not exist.
C22_RelationNoOps ==
  [][ ( /\ last' # last
        /\ \/ /\ IsOp(last', "relation", "insert")
              /\ last'.change.entity_id \in DOMAIN relations
           \/ /\ IsOp(last', "relation", "delete")
              /\ last'.change.entity_id \notin DOMAIN relations )
      => /\ last'.success
         /\ DB' = DB ]_vars

\* C22 witness: an insert of a relation id that exists, carrying other
\* endpoints than the stored row and pushed by the owner of those notes, has
\* been reported success.
C22_Witness ==
  /\ IsOp(last, "relation", "insert")
  /\ last.success
  /\ last.again
  /\ last.change.entity_id \in DOMAIN relations
  /\ relations[last.change.entity_id].from_note_id
       # last.change.payload.from_note_id
  /\ OwnedNote(DB, last.user_id, last.change.payload.from_note_id)
  /\ OwnedNote(DB, last.user_id, last.change.payload.to_note_id)

\* C23 (as claimed): pushing the change that was pushed just before, by the
\* same user, leaves the store as the first application left it.
C23_PushTwice ==
  [][ (last' # last /\ last'.again) => DB' = DB ]_vars

\* ------------------------------- SpecEnvelope: the body of a push request
\* The users insert the notes n1 and n2; then one user posts one push
\* request of 0..MaxItems + 1 changes, among them changes that apply, changes
\* of entity type "keyword", an update of a relation and a change of a type
\* the schema does not know.  `last` keeps the request, the store before it,
\* the status of the answer, the store after each item and the response.
EnvelopeChanges ==
  { [entity_type |-> "note", entity_id |-> "n1", operation |-> "update",
     payload |-> BatchNoteUpdate],
    [entity_type |-> "keyword", entity_id |-> "k1", operation |-> "insert",
     payload |-> [name |-> "k1"]],
    [entity_type |-> "relation", entity_id |-> "r1", operation |-> "update",
     payload |-> BatchRelation],
    [entity_type |-> "tag", entity_id |-> "t1", operation |-> "insert",
     payload |-> [name |-> "t1"]],
    [entity_type |-> "reflection", entity_id |-> "d1", operation |-> "upsert",
     payload |-> BatchReflection] }

EnvelopeItems == { [change |-> c, fault |-> FALSE] : c \in EnvelopeChanges }

\* POST /sync/push with a body of n changes.
PostPush ==
  /\ last = NoRequest
  /\ \E u \in Users, n \in 0..(MaxItems + 1) :
       \E items \in [1..n -> EnvelopeItems] :
         \E r \in {post_sync_push(DB, now, u, items)} :
           /\ Store(r.db)
           /\ last' = [entity_type |-> "request", user_id |-> u, items |-> items,
                       before |-> DB, status |-> r.status, trail |-> r.trail,
                       response |-> r.response]
  /\ UNCHANGED <<now, pushed, txn, sess, weekly_reports>>

NextEnvelope == OpsSeed \/ PostPush \/ Tick

SpecEnvelope == Init /\ [][NextEnvelope]_vars

\* C24: a push whose changes list is empty or longer than the limit is
\* rejected as a whole: no result is reported and the store is as before.
C24_OversizedBatchRejected ==
  ( /\ last.entity_type = "request"
    /\ (Len(last.items) = 0 \/ Len(last.items) > MaxItems) )
  => /\ last.status = 422
     /\ last.response.results = <<>>
     /\ last.trail = <<>>
     /\ DB = last.before

\* C24 witness: a body of MaxItems + 1 changes that validate one by one,
\* the first of which would have rewritten a stored note of the user, has
\* been rejected.
C24_Witness ==
  /\ last.entity_type = "request"
  /\ Len(last.items) = MaxItems + 1
  /\ \A i \in 1..Len(last.items) : ChangeLogEntry(last.items[i].change)
  /\ last.items[1].change.entity_type = "note"
  /\ OwnedNote(DB, last.user_id, last.items[1].change.entity_id)
  /\ push_item(DB, now, last.user_id, last.items[1].change, Works, Works).db # DB
  /\ last.status = 422

\* The change is of an entity type or operation the engine does not support.
IsUnsupported(change) ==
  \/ change.entity_type \notin {"note", "relation", "reflection"}
  \/ change.operation \notin {"insert", "update", "delete"}
  \/ (change.entity_type = "relation" /\ change.operation = "update")

\* C25: a change of an unsupported entity type or operation is rejected with
\* a validation error and changes nothing: either the whole request is
\* answered 422 and the store is as before, or the item is reported failed
\* with the error of the routing and the store after it is the store before
\* it.
C25_UnsupportedChangeRejected ==
  last.entity_type = "request"
  => \A i \in 1..Len(last.items) :
       IsUnsupported(last.items[i].change)
       => \/ /\ last.status = 422
             /\ DB = last.before
          \/ /\ last.status = 200
             /\ ~last.response.results[i].success
             /\ last.response.results[i].error[1]
                  \in {"Unknown operation for relation: ", "Unknown entity type: "}
             /\ last.trail[i] = StoreBefore(i)

\* C25 witness: a request whose first item rewrote a note and whose second
\* item was of entity type "keyword" has been answered, the second item
\* failed.
C25_Witness ==
  /\ last.entity_type = "request"
  /\ last.status = 200
  /\ Len(last.items) >= 2
  /\ last.response.results[1].success
  /\ last.trail[1] # last.before
  /\ last.items[2].change.entity_type = "keyword"
  /\ ~last.response.results[2].success

\* --------------------------- SpecDerive: note writes and their derivation
\* The users push writes of the note n1 (an insert while it is not stored,
\* updates afterwards), with bodies "a", "b" and the empty body, while the embedding provider and the keyword
\* extractor work, fail in their call or cannot be obtained.  `last` keeps
\* the change, how the two services behaved, the result and whether the
\* write was a winning one (no stored row, or a newer updated_at).
DerivePayloads ==
  { p \in NotePayloads : p.deleted_at = None }
  \cup { [p EXCEPT !.body = ""] :
           p \in { q \in NotePayloads : q.deleted_at = None /\ q.body = "a" } }

ServiceOutcomes == {Works, Fails, Unavailable}

\* POST /sync/push by user u with one write of the note n1.
DerivePush ==
  /\ \E u \in Users, p \in DerivePayloads,
        embOk \in ServiceOutcomes, kwOk \in ServiceOutcomes :
       \E c \in {[entity_type |-> "note", entity_id |-> TheNote,
                  operation |-> IF TheNote \in DOMAIN notes THEN "update"
                                ELSE "insert",
                  payload |-> p]} :
         \E r \in {push_item(DB, now, u, c, embOk, kwOk)} :
           /\ Store(r.db)
           /\ last' = [entity_type |-> "derive", user_id |-> u, change |-> c,
                       embOk |-> embOk, kwOk |-> kwOk, success |-> r.ok,
                       won |-> \/ TheNote \notin DOMAIN notes
                               \/ FromIso(p.updated_at) > notes[TheNote].updated_at]
  /\ UNCHANGED <<now, pushed, txn, sess, weekly_reports>>

NextDerive == DerivePush

SpecDerive == Init /\ [][NextDerive]_vars

\* C26 (as claimed): a winning note insert/update is reported success and
\* the note is persisted, whatever the embedding provider and the keyword
\* extractor do (failing call, provider not obtained, empty body): with a
\* null embedding when no vector was produced and without keyword links when
\* no keyword was.
C26_DerivationFailureTolerated ==
  (last.entity_type = "derive" /\ last.won)
  => LET id == last.change.entity_id
         body == last.change.payload.body
     IN /\ last.success
        /\ id \in DOMAIN notes
        /\ notes[id].body = body
        /\ notes[id].updated_at = FromIso(last.change.payload.updated_at)
        /\ (last.embOk # Works \/ body = "") => notes[id].embedding = None
        /\ (last.kwOk # Works \/ body = "") => LinksOf(note_keywords, id) = {}

\* C27: after a successful winning note insert/update the keywords linked to
\* the note are exactly the names the extractor returned for the body, one
\* link per name, and no name is twice in the keyword table.
C27_KeywordLinksMatchExtraction ==
  (last.entity_type = "derive" /\ last.won /\ last.success)
  => LET id == last.change.entity_id
         names == extract_keyword_names(last.change.payload.body, last.kwOk)
     IN /\ \A k \in LinksOf(note_keywords, id) : k \in 1..Len(keywords)
        /\ { keywords[k] : k \in LinksOf(note_keywords, id) } = Range(names)
        /\ Cardinality(LinksOf(note_keywords, id)) = Len(names)
        /\ \A i, j \in 1..Len(keywords) : keywords[i] = keywords[j] => i = j

\* C27 witness: a winning update with body "a" of a note stored with body
\* "b" (two keywords) has succeeded; the note keeps the one keyword of "a"
\* and the table keeps both names.
C27_Witness ==
  /\ last.entity_type = "derive"
  /\ last.won
  /\ last.success
  /\ last.kwOk = Works
  /\ last.change.payload.body = "a"
  /\ Len(keywords) = 2
  /\ Cardinality(LinksOf(note_keywords, TheNote)) = 1

\* ------------------------------- SpecEmit: what a pull says of a note
\* The users write the notes n1 and n2 (live, or soft-deleted by the write)
\* and delete them; then a client pulls with a checkpoint of its choice.  No
\* push runs after the pull; the clock may move.
EmitPayloads == { p \in NotePayloads : p.body = "a" }

EmitWrite ==
  /\ sess.state = "none"
  /\ \E u \in Users, id \in OpsNoteIds, p \in EmitPayloads :
       \E r \in {push_item(DB, now, u, [entity_type |-> "note", entity_id |-> id,
                           operation |-> "update", payload |-> p], Works, Works)} :
         Store(r.db)
  /\ UNCHANGED <<now, last, pushed, txn, sess, weekly_reports>>

EmitDelete ==
  /\ sess.state = "none"
  /\ \E u \in Users, id \in OpsNoteIds :
       \E r \in {push_item(DB, now, u, [entity_type |-> "note", entity_id |-> id,
                           operation |-> "delete",
                           payload |-> [deleted_at |-> None]], Works, Works)} :
         Store(r.db)
  /\ UNCHANGED <<now, last, pushed, txn, sess, weekly_reports>>

NextEmit == EmitWrite \/ EmitDelete \/ AskPull \/ Tick

SpecEmit == Init /\ [][NextEmit]_vars

\* C28: in a pull response a note row with deleted_at set is a delta with
\* operation "delete" and no data, and a note row with deleted_at unset is a
\* delta with operation "upsert" and the payload of the row.
C28_DeletedNotesEmittedAsDelete ==
  sess.state = "answered"
  => \A e \in DOMAIN sess.resp.changes :
       e[1] = "note"
       => LET note == notes[e[2]]
              delta == sess.resp.changes[e]
          IN IF note.deleted_at # NULL
             THEN delta.operation = "delete" /\ delta.data = None
             ELSE /\ delta.operation = "upsert"
                  /\ DOMAIN delta.data
                       = {"id", "body", "importance", "source_url", "image_path",
                          "created_at", "updated_at", "deleted_at"}
                  /\ delta.data.id = e[2]
                  /\ delta.data.body = note.body
                  /\ delta.data.importance = note.importance
                  /\ delta.data.source_url = note.source_url
                  /\ delta.data.image_path = note.image_path
                  /\ FromIso(delta.data.created_at) = note.created_at
                  /\ FromIso(delta.data.updated_at) = note.updated_at
                  /\ delta.data.deleted_at = None

\* C28 witness: a pull returned a soft-deleted note and a live note.
C28_Witness ==
  /\ sess.state = "answered"
  /\ \E e \in DOMAIN sess.resp.changes :
       e[1] = "note" /\ notes[e[2]].deleted_at # NULL
  /\ \E e \in DOMAIN sess.resp.changes :
       e[1] = "note" /\ notes[e[2]].deleted_at = NULL

\* ------------------------------------------------------- weekly reports
\* GET /reports/weekly of app/api/reports.py and ReportService of
\* app/services/report.py.  A week key "YYYY-WW" that passed the query's
\* regex ^\d{4}-\d{2}$ is the pair <<year, week>>.  Dates are proleptic
\* Gregorian ordinals (datetime.toordinal()).  The instants of the timestamps
\* lie 77 years and a day apart: instant 1 is 2024-01-03 and instant 2 is
\* 2101-01-04, each in week 1 of its year.

\* The days before January 1st of the year (date(year, 1, 1).toordinal() - 1).
DaysBeforeYear(year) ==
  365 * (year - 1) + ((year - 1) \div 4) - ((year - 1) \div 100)
  + ((year - 1) \div 400)

\* datetime.weekday(): Monday is 0.
Weekday(ordinal) == (ordinal + 6) % 7

\* The ordinal of the day of a stored timestamp.
InstantOrdinal(t) == DaysBeforeYear(2024 + 77 * (t - 1)) + 2 + t

\* ReportService._parse_week_key: ValueError unless 1 <= week <= 53.
parse_week_key(week_key) ==
  [ok |-> 1 <= week_key[2] /\ week_key[2] <= 53,
   year |-> week_key[1], week |-> week_key[2]]

\* ReportService._get_week_date_range: Monday of ISO week 1 is the Monday of
\* the week of January 4th; the range is [start, start + 7 days).
get_week_date_range(week_key) ==
  LET jan4 == DaysBeforeYear(week_key[1]) + 4
      week_start == jan4 - Weekday(jan4)
      target_week_start == week_start + 7 * (week_key[2] - 1)
  IN <<target_week_start, target_week_start + 7>>

\* The notes generate_weekly_report fetches: of the user, created in the
\* week, not deleted, with an embedding.
WeekNotes(db, user_id, week_key) ==
  LET range == get_week_date_range(week_key)
  IN { id \in DOMAIN db.notes :
         /\ db.notes[id].user_id = user_id
         /\ InstantOrdinal(db.notes[id].created_at) >= range[1]
         /\ InstantOrdinal(db.notes[id].created_at) < range[2]
         /\ db.notes[id].deleted_at = NULL
         /\ db.notes[id].embedding # None }

\* ReportService._aggregate_keywords: the keyword names of the notes with
\* the number of notes that carry each.
aggregate_keywords(db, ids) ==
  LET names == { db.keywords[l[2]] : l \in { x \in db.note_keywords : x[1] \in ids } }
  IN [ name \in names |->
         Cardinality({ id \in ids :
            \E l \in db.note_keywords : l[1] = id /\ db.keywords[l[2]] = name }) ]

\* WeeklyReportData of the week, generated at clk (its cluster summaries and
\* suggested connections are not kept in this record).
report_data(db, clk, user_id, week_key) ==
  LET ids == WeekNotes(db, user_id, week_key)
  IN [week_key |-> week_key,
      total_notes |-> Cardinality(ids),
      top_keywords |-> aggregate_keywords(db, ids),
      generated_at |-> clk]

\* db.query(WeeklyReport).filter(user_id ==, week_key ==).first(): the
\* position of the first such row, 0 when there is none.
existing_report(reports, user_id, week_key) ==
  LET found == { i \in 1..Len(reports) :
                   reports[i].user_id = user_id /\ reports[i].week_key = week_key }
  IN IF found = {} THEN 0 ELSE CHOOSE i \in found : \A j \in found : i <= j

\* WeeklyReport is identified by (user_id, week_key) (spec 3, data model): the
\* INSERT of a second row with the identity of a stored row is refused.
WeeklyReportIdentityTaken(reports, user_id, week_key) ==
  existing_report(reports, user_id, week_key) # 0

\* raise HTTPException(status_code, detail): the stored reports stay as
\* they were (the session is rolled back).
ReportError(reports, status) ==
  [status |-> status, reports |-> reports,
   response |-> [detail |-> CASE status = 400 -> "Invalid week key format"
                              [] status = 404 -> "No notes found"
                              [] OTHER -> "Failed to generate weekly report"]]

\* ReportService.generate_weekly_report(db, user_id, week_key); elapsed is
\* the processing time measured, in ms.
generate_weekly_report(db, reports, clk, user_id, week_key, elapsed) ==
  IF ~parse_week_key(week_key).ok THEN ReportError(reports, 400)
  ELSE IF week_key[1] < 1 THEN ReportError(reports, 400)  \* datetime(0, 1, 4)
  ELSE IF WeekNotes(db, user_id, week_key) = {} THEN ReportError(reports, 404)
  ELSE IF WeeklyReportIdentityTaken(reports, user_id, week_key)
  THEN ReportError(reports, 500)
  ELSE LET data == report_data(db, clk, user_id, week_key)
       IN [status |-> 200,
           reports |-> Append(reports, [user_id |-> user_id,
                                        week_key |-> week_key, data |-> data]),
           response |-> [week_key |-> week_key, report |-> data,
                         processing_time_ms |-> elapsed]]

\* A request that never answers from the stored reports.
NeverCached(reports, user_id, week, regenerate) == FALSE

\* `if not regenerate:` ... `if existing_report:`: the request is answered
\* from the stored report.
AnswerCached(reports, user_id, week, regenerate) ==
  ~regenerate /\ existing_report(reports, user_id, week) # 0

\* get_weekly_report(week, regenerate, current_user, db)
get_weekly_report(db, reports, clk, user_id, week, regenerate, elapsed) ==
  IF AnswerCached(reports, user_id, week, regenerate)
  THEN LET row == reports[existing_report(reports, user_id, week)]
       IN [status |-> 200, reports |-> reports,
           response |-> [week_key |-> row.week_key, report |-> row.data,
                         processing_time_ms |-> 0]]
  ELSE generate_weekly_report(db, reports, clk, user_id, week, elapsed)

\* ------------------------------- SpecReport: requests of weekly reports
\* The users write and delete the notes n1 and n2 and request weekly reports
\* of weeks with and without notes (and of a week number out of range), with
\* and without regenerate, while the clock moves.  `last` keeps the request,
\* whether a report of that user and week was stored before it, the store of
\* reports before it and the answer.
WeekKeys == { <<2024, 1>>, <<2024, 2>>, <<2024, 54>> }

ElapsedMs == {0, 1}

ReportSeed ==
  /\ \E u \in Users, id \in OpsNoteIds, embOk \in {Works, Fails} :
       \E r \in {push_item(DB, now, u, [entity_type |-> "note", entity_id |-> id,
                           operation |-> "insert", payload |-> BatchNote],
                           embOk, Works)} :
         Store(r.db)
  /\ UNCHANGED <<now, last, pushed, txn, sess, weekly_reports>>

ReportRequest ==
  /\ \E u \in Users, week \in WeekKeys, regenerate \in BOOLEAN,
        elapsed \in ElapsedMs :
       \E r \in {get_weekly_report(DB, weekly_reports, now, u, week,
                                   regenerate, elapsed)} :
         /\ weekly_reports' = r.reports
         /\ last' = [entity_type |-> "report", user_id |-> u, week |-> week,
                     regenerate |-> regenerate,
                     cached |-> existing_report(weekly_reports, u, week) # 0,
                     before |-> weekly_reports,
                     status |-> r.status, response |-> r.response]
  /\ UNCHANGED <<now, notes, keywords, note_keywords, relations, reflections,
                 pushed, txn, sess>>

NextReport == ReportSeed \/ EmitDelete \/ ReportRequest \/ Tick

SpecReport == Init /\ [][NextReport]_vars

WeekNotePayloads ==
  { [BatchNote EXCEPT !.created_at = <<t, "Z">>, !.updated_at = <<t, "Z">>] :
      t \in {1, 2} }

WeekKeyInputs == {0, 1999, 2024, 2101} \X {0, 1, 53, 54}

WeekSeed ==
  /\ last = NoRequest
  /\ \E u \in Users, id \in OpsNoteIds, payload \in WeekNotePayloads :
       \E r \in {push_item(DB, now, u, [entity_type |-> "note", entity_id |-> id,
                           operation |-> "insert", payload |-> payload],
                           Works, Works)} :
         Store(r.db)
  /\ UNCHANGED <<now, last, pushed, txn, sess, weekly_reports>>

WeekRequest ==
  /\ \E u \in Users, week \in WeekKeyInputs, regenerate \in BOOLEAN :
       \E r \in {get_weekly_report(DB, weekly_reports, now, u, week,
                                   regenerate, 0)} :
         /\ weekly_reports' = r.reports
         /\ last' = [entity_type |-> "report", user_id |-> u, week |-> week,
                     regenerate |-> regenerate,
                     cached |-> existing_report(weekly_reports, u, week) # 0,
                     before |-> weekly_reports,
                     status |-> r.status, response |-> r.response]
  /\ UNCHANGED <<now, notes, keywords, note_keywords, relations, reflections,
                 pushed, txn, sess>>

NextWeek == WeekSeed \/ WeekRequest

SpecWeek == Init /\ [][NextWeek]_vars

\* C31 (as claimed): a weekly report request whose week key has a year
\* outside 2000..2100 or a week number outside 1..53 is answered with a
\* validation error (HTTP 400), and no report is stored by it.
C31_WeekKeyValidated ==
  ( /\ last.entity_type = "report"
    /\ \/ last.week[1] < 2000 \/ last.week[1] > 2100
       \/ last.week[2] < 1 \/ last.week[2] > 53 )
  => /\ last.status = 400
     /\ weekly_reports = last.before

\* ------------------------------------------------------ recommendations
\* GET /recommend/{note_id} of app/api/recommend.py and RecommendationService
\* of app/services/recommendation.py.  Similarities are in hundredths and
\* scores in thousandths: the weights 0.6, 0.3, 0.1 are 6, 3, 1 and the
\* threshold 0.3 is 300.

\* [kw.keyword.name for kw in note.keywords]
KeywordNames(db, id) ==
  { db.keywords[l[2]] : l \in { x \in db.note_keywords : x[1] = id } }

\* RecommendationService._calculate_keyword_similarity: Jaccard similarity.
calculate_keyword_similarity(target_keywords, candidate_keywords) ==
  IF target_keywords = {} \/ candidate_keywords = {} THEN 0
  ELSE (100 * Cardinality(target_keywords \cap candidate_keywords))
         \div Cardinality(target_keywords \cup candidate_keywords)

\* RecommendationService._calculate_temporal_score: exp(-days / 30); the
\* instants of the notes are the same day or more than 28000 days apart,
\* where the double underflows to 0.0.
calculate_temporal_score(target_created, candidate_created) ==
  IF InstantOrdinal(target_created) = InstantOrdinal(candidate_created)
  THEN 100 ELSE 0

\* RecommendationService._calculate_hybrid_score
calculate_hybrid_score(embedding_similarity, keyword_similarity, temporal_score) ==
  6 * embedding_similarity + 3 * keyword_similarity + 1 * temporal_score

\* 1 - (embedding <=> :target_embedding): the cosine similarity of two
\* stored vectors; `cross` is the one of the vectors of two different texts.
EmbeddingSimilarity(e1, e2, cross) == IF e1 = e2 THEN 100 ELSE cross

\* A lookup of the target by id alone.
TargetOfAnyone(db, note_id, user_id) ==
  note_id \in DOMAIN db.notes

\* db.query(Note).filter(Note.id == note_id, Note.user_id == user_id,
\* Note.deleted_at.is_(None)).first() finds a note.
TargetNote(db, note_id, user_id) ==
  /\ note_id \in DOMAIN db.notes
  /\ db.notes[note_id].user_id = user_id
  /\ db.notes[note_id].deleted_at = NULL

\* A target that is taken to have an embedding whatever is stored.
EmbeddingAssumed(note) == FALSE

\* `if target_note.embedding is None`
NoEmbedding(note) == note.embedding = None

\* A candidate query without its WHERE clause on the owner.
CandidatesOfAnyone(db, note_id, user_id) ==
  { id \in DOMAIN db.notes :
      /\ id # note_id
      /\ db.notes[id].deleted_at = NULL
      /\ db.notes[id].embedding # None }

\* The rows that satisfy the WHERE clause of the candidate query.
Candidates(db, note_id, user_id) ==
  { id \in DOMAIN db.notes :
      /\ db.notes[id].user_id = user_id
      /\ id # note_id
      /\ db.notes[id].deleted_at = NULL
      /\ db.notes[id].embedding # None }

\* ORDER BY embedding <=> :target_embedding LIMIT :max_candidates: the sets
\* of rows the query may return, nearest first; rows at the same distance
\* are taken in any order.
Retrieved(db, note_id, user_id, cross) ==
  LET rows == Candidates(db, note_id, user_id)
      sim(id) == EmbeddingSimilarity(db.notes[note_id].embedding,
                                     db.notes[id].embedding, cross)
      n == IF Cardinality(rows) < MaxCandidates
           THEN Cardinality(rows) ELSE MaxCandidates
  IN { S \in SUBSET rows :
         /\ Cardinality(S) = n
         /\ \A x \in S, y \in rows \ S : sim(x) >= sim(y) }

\* db.query(Note).filter(Note.id.in_(candidate_ids)).all(): the candidate
\* notes in the order the database returns them, which no clause fixes.
CandidateOrders(ids) ==
  { f \in [1..Cardinality(ids) -> ids] :
      \A i, j \in 1..Cardinality(ids) : f[i] = f[j] => i = j }

\* RecommendationService._generate_recommendation_reason
generate_recommendation_reason(embedding_sim, keyword_sim, temporal_score, common_keywords) ==
  LET semantic == IF embedding_sim > 70 THEN <<"very similar">>
                  ELSE IF embedding_sim > 50 THEN <<"related topic">> ELSE <<>>
      keyword == IF common_keywords # {} THEN <<"common keywords">> ELSE <<>>
      recent == IF temporal_score > 80 THEN <<"recent">> ELSE <<>>
      reasons == semantic \o keyword \o recent
  IN IF reasons = <<>> THEN <<"similar context">> ELSE reasons

\* The RecommendedNote of one candidate.
RecommendedNote(db, note_id, id, cross) ==
  LET target_keywords == KeywordNames(db, note_id)
      candidate_keywords == KeywordNames(db, id)
      embedding_sim == EmbeddingSimilarity(db.notes[note_id].embedding,
                                           db.notes[id].embedding, cross)
      keyword_sim == calculate_keyword_similarity(target_keywords,
                                                  candidate_keywords)
      temporal_score == calculate_temporal_score(db.notes[note_id].created_at,
                                                 db.notes[id].created_at)
  IN [note_id |-> id,
      body_preview |-> db.notes[id].body,
      score |-> calculate_hybrid_score(embedding_sim, keyword_sim, temporal_score),
      reason |-> generate_recommendation_reason(
                   embedding_sim, keyword_sim, temporal_score,
                   target_keywords \cap candidate_keywords),
      created_at |-> db.notes[id].created_at,
      common_keywords |-> target_keywords \cap candidate_keywords]

\* A loop that keeps every candidate.
KeepAll(recs) == recs

\* `if hybrid_score < self.min_similarity_threshold: continue`
AboveThreshold(recs) == SelectSeq(recs, LAMBDA r : r.score >= 300)

\* list.sort(key=lambda x: x.score, reverse=True): a stable sort, elements
\* of equal score keep the order they had.
RECURSIVE sort_by_score(_)
sort_by_score(recs) ==
  IF recs = <<>> THEN <<>>
  ELSE LET rest == sort_by_score(SubSeq(recs, 1, Len(recs) - 1))
           x == recs[Len(recs)]
           before == SelectSeq(rest, LAMBDA r : r.score >= x.score)
           after == SelectSeq(rest, LAMBDA r : r.score < x.score)
       IN before \o <<x>> \o after

\* recommendations[:k]
TopK(recs, k) == SubSeq(recs, 1, IF Len(recs) < k THEN Len(recs) ELSE k)

\* The RecommendationResult of a target with an embedding, for the candidate
\* notes in the order `order`.
Recommend(db, note_id, k, cross, order, elapsed) ==
  [status |-> 200,
   response |->
     [note_id |-> note_id,
      recommendations |->
        TopK(sort_by_score(AboveThreshold(
               [i \in 1..Len(order) |-> RecommendedNote(db, note_id, order[i], cross)])),
             k),
      total_candidates |-> Len(order),
      processing_time_ms |-> elapsed]]

\* get_note_recommendations(note_id, k, current_user, db) with
\* RecommendationService.get_recommendations: the answer for the candidate
\* notes in the order `order`.
get_recommendations(db, note_id, user_id, k, cross, order, elapsed) ==
  IF ~TargetNote(db, note_id, user_id)
  THEN [status |-> 404,
        response |-> [detail |-> <<"Note ", note_id, " not found or access denied">>]]
  ELSE IF NoEmbedding(db.notes[note_id])
  THEN [status |-> 200,
        response |-> [note_id |-> note_id, recommendations |-> <<>>,
                      total_candidates |-> 0, processing_time_ms |-> 0]]
  ELSE Recommend(db, note_id, k, cross, order, elapsed)

\* ---------------------------- SpecRecommend: requests of recommendations
\* The notes n1..n4 are inserted, each of one of five kinds: a note of u1
\* with the body "a", one with the body "b", one without embedding, one
\* deleted, and a note of u2; the users ask for the recommendations of a note.
\* `last` keeps the request, the candidate notes in the order the database
\* returned them, and the answer.
RecNoteIds == {"n1", "n2", "n3", "n4"}

RecPayloads ==
  { p \in NotePayloads :
      /\ FromIso(p.updated_at) = 1
      /\ ParseDeletedAt(p.deleted_at) \in {NULL, 1} }

RecWrites ==
  { w \in [user_id : Users, payload : RecPayloads, embOk : {Works, Fails}] :
      \/ /\ w.user_id = "u1" /\ w.embOk = Works
         /\ ParseDeletedAt(w.payload.deleted_at) = NULL
      \/ /\ w.user_id = "u1" /\ w.embOk = Fails /\ w.payload.body = "a"
         /\ ParseDeletedAt(w.payload.deleted_at) = NULL
      \/ /\ w.user_id = "u1" /\ w.embOk = Works /\ w.payload.body = "a"
         /\ ParseDeletedAt(w.payload.deleted_at) # NULL
      \/ /\ w.user_id = "u2" /\ w.embOk = Works /\ w.payload.body = "a"
         /\ ParseDeletedAt(w.payload.deleted_at) = NULL }

\* The cosine similarity of the vectors of the two bodies.
CrossSimilarities == {0 - 100, 0, 50}

\* The orders in which the candidate notes of a request may come.
RequestOrders(db, note_id, user_id, cross) ==
  IF TargetNote(db, note_id, user_id) /\ ~NoEmbedding(db.notes[note_id])
  THEN UNION { CandidateOrders(S) : S \in Retrieved(db, note_id, user_id, cross) }
  ELSE {<<>>}

RecSeed ==
  /\ last = NoRequest
  /\ \E w \in RecWrites, id \in RecNoteIds :
       /\ id \notin DOMAIN notes
       /\ \E r \in {push_item(DB, now, w.user_id,
                              [entity_type |-> "note", entity_id |-> id,
                               operation |-> "insert", payload |-> w.payload],
                              w.embOk, Works)} :
            Store(r.db)
  /\ UNCHANGED <<now, last, pushed, txn, sess, weekly_reports>>

RecRequest ==
  /\ last = NoRequest
  /\ \E u \in Users, note_id \in RecNoteIds, k \in 1..MaxK,
        cross \in CrossSimilarities, elapsed \in ElapsedMs :
       \E order \in RequestOrders(DB, note_id, u, cross) :
         \E r \in {get_recommendations(DB, note_id, u, k, cross, order, elapsed)} :
           last' = [entity_type |-> "recommend", user_id |-> u,
                    note_id |-> note_id, k |-> k, cross |-> cross,
                    order |-> order, status |-> r.status,
                    response |-> r.response]
  /\ UNCHANGED <<now, notes, keywords, note_keywords, relations, reflections,
                 pushed, txn, sess, weekly_reports>>

NextRecommend == RecSeed \/ RecRequest

SpecRecommend == Init /\ [][NextRecommend]_vars

\* The answer of the last request, when it is a recommendation request.
IsRecommend == last.entity_type = "recommend"

\* C32: a recommendation request for a note that does not exist, is owned
\* by another user or is soft-deleted is answered not-found, with an answer
\* that holds nothing but the requested id.
C32_ForeignTargetNotFound ==
  ( /\ IsRecommend
    /\ \/ last.note_id \notin DOMAIN notes
       \/ notes[last.note_id].user_id # last.user_id
       \/ notes[last.note_id].deleted_at # NULL )
  => /\ last.status = 404
     /\ last.response
          = [detail |-> <<"Note ", last.note_id, " not found or access denied">>]

\* C32 witness: the target is a live note of another user, with an
\* embedding, and the requester has a note of the same body.
C32_Witness ==
  /\ IsRecommend
  /\ last.note_id \in DOMAIN notes
  /\ notes[last.note_id].user_id # last.user_id
  /\ notes[last.note_id].deleted_at = NULL
  /\ notes[last.note_id].embedding # None
  /\ \E id \in DOMAIN notes :
       /\ notes[id].user_id = last.user_id
       /\ notes[id].embedding = notes[last.note_id].embedding
  /\ last.status = 404

\* The lexical rank of a note id.
IdRank(id) == CHOOSE i \in 1..4 : id = <<"n1", "n2", "n3", "n4">>[i]

\* C33 (as claimed): at most k recommendations are returned, sorted by
\* score descending; of two with the same score the one created later comes
\* first, and of two created at the same time the one with the smaller id.
C33_SortedWithTieBreaks ==
  (IsRecommend /\ last.status = 200)
  => LET recs == last.response.recommendations
     IN /\ Len(recs) <= last.k
        /\ \A i, j \in 1..Len(recs) :
             i < j =>
               \/ recs[i].score > recs[j].score
               \/ /\ recs[i].score = recs[j].score
                  /\ \/ recs[i].created_at > recs[j].created_at
                     \/ /\ recs[i].created_at = recs[j].created_at
                        /\ IdRank(recs[i].note_id) < IdRank(recs[j].note_id)

\* The notes a recommendation for the last request may be made of.
Eligible ==
  { id \in DOMAIN notes :
      /\ notes[id].user_id = last.user_id
      /\ id # last.note_id
      /\ notes[id].deleted_at = NULL
      /\ notes[id].embedding # None }

\* C34: every recommendation returned is a live note of the requester other
\* than the target, with a score of at least 0.3 and at most 1; and
\* total_candidates is the number of neighbours retrieved, which is the
\* number of such notes up to the limit of the retrieval.
C34_RecommendationsAreOwnLiveNotes ==
  (IsRecommend /\ last.status = 200)
  => /\ \A i \in 1..Len(last.response.recommendations) :
          LET rec == last.response.recommendations[i]
          IN /\ rec.note_id \in DOMAIN notes
             /\ notes[rec.note_id].user_id = last.user_id
             /\ rec.note_id # last.note_id
             /\ notes[rec.note_id].deleted_at = NULL
             /\ rec.score >= 300
             /\ rec.score <= 1000
     /\ last.response.total_candidates <= MaxCandidates
     /\ Len(last.response.recommendations) <= last.response.total_candidates
     /\ notes[last.note_id].embedding # None
        => last.response.total_candidates
             = IF Cardinality(Eligible) < MaxCandidates
               THEN Cardinality(Eligible) ELSE MaxCandidates

\* C34 witness: as many neighbours as the limit allows were retrieved, one
\* of them fell below the threshold, and another user has a live note with
\* the embedding of the target.
C34_Witness ==
  /\ IsRecommend
  /\ last.status = 200
  /\ last.response.total_candidates = MaxCandidates
  /\ Len(last.response.recommendations) < last.response.total_candidates
  /\ Len(last.response.recommendations) < last.k
  /\ Len(last.response.recommendations) > 0
  /\ \E id \in DOMAIN notes :
       /\ notes[id].user_id # last.user_id
       /\ notes[id].deleted_at = NULL
       /\ notes[id].embedding = notes[last.note_id].embedding

\* C35: for a live target of the requester without embedding the request
\* succeeds with no recommendation and total_candidates = 0.
C35_NoEmbeddingNoRecommendations ==
  ( /\ IsRecommend
    /\ last.note_id \in DOMAIN notes
    /\ notes[last.note_id].user_id = last.user_id
    /\ notes[last.note_id].deleted_at = NULL
    /\ notes[last.note_id].embedding = None )
  => /\ last.status = 200
     /\ last.response.recommendations = <<>>
     /\ last.response.total_candidates = 0

\* C35 witness: the target has no embedding while the requester has two
\* other live notes with embeddings.
C35_Witness ==
  /\ IsRecommend
  /\ last.note_id \in DOMAIN notes
  /\ notes[last.note_id].user_id = last.user_id
  /\ notes[last.note_id].deleted_at = NULL
  /\ notes[last.note_id].embedding = None
  /\ Cardinality(Eligible) >= 2
  /\ last.status = 200

\* ------------------------------- SpecPrevWeek: the week before a week key
\* generate_weekly_report: prev_week, prev_year, prev_week_key, the week
\* whose keywords _identify_new_keywords compares with.
previous_week_key(week_key) ==
  LET year == parse_week_key(week_key).year
      week == parse_week_key(week_key).week
  IN <<IF week > 1 THEN year ELSE year - 1, IF week > 1 THEN week - 1 ELSE 52>>

\* The years of the week keys asked for: 2020 has 53 ISO weeks.
WeekYears == 2019..2022

\* The report engine computes the date range of a week key and the week
\* key it compares with.
PreviousWeek ==
  /\ \E year \in WeekYears, week \in 1..53 :
       last' = [entity_type |-> "week", week_key |-> <<year, week>>,
                range |-> get_week_date_range(<<year, week>>),
                previous |-> previous_week_key(<<year, week>>)]
  /\ UNCHANGED <<now, notes, keywords, note_keywords, relations, reflections,
                 pushed, txn, sess, weekly_reports>>

NextPrevWeek == PreviousWeek

SpecPrevWeek == Init /\ [][NextPrevWeek]_vars

\* ISO 8601: the Monday of week 1 of a year is the Monday of the week that
\* holds January 4th.
IsoWeekOneMonday(year) ==
  (DaysBeforeYear(year) + 4) - ((DaysBeforeYear(year) + 4 + 6) % 7)

\* ISO 8601: the ISO year and week of a day.
IsoYearWeek(ordinal) ==
  LET year == CHOOSE y \in 2017..2024 :
                IsoWeekOneMonday(y) <= ordinal /\ ordinal < IsoWeekOneMonday(y + 1)
  IN <<year, ((ordinal - IsoWeekOneMonday(year)) \div 7) + 1>>

\* C36 (as claimed): for a week key that names an ISO week, the date range
\* is the 7 days from the Monday of that week, and the week compared with is
\* the ISO week of the day before that Monday.
C36_PreviousIsoWeek ==
  ( /\ last.entity_type = "week"
    /\ IsoYearWeek(IsoWeekOneMonday(last.week_key[1]) + 7 * (last.week_key[2] - 1))
         = last.week_key )
  => /\ IsoYearWeek(last.range[1]) = last.week_key
     /\ (last.range[1] + 6) % 7 = 0
     /\ last.range[2] = last.range[1] + 7
     /\ last.previous = IsoYearWeek(last.range[1] - 1)

\* ------------------------------- SpecCluster: the clusters of a week's notes
\* A cluster count that ignores the number of notes.
one_cluster(n_notes) == 1

\* ReportService._determine_cluster_count
determine_cluster_count(n_notes) ==
  IF n_notes < 3 THEN 1
  ELSE IF n_notes < 10 THEN 2
  ELSE IF n_notes < 20 THEN 3
  ELSE IF n_notes < 40 THEN 4
  ELSE 5

\* ReportService._cluster_notes(notes, embeddings): the dictionary of the
\* clusters, where `labels` is what KMeans(n_clusters).fit_predict returns,
\* one label in 0..n_clusters-1 per note.
cluster_notes(cluster_list, labels) ==
  IF Len(cluster_list) < 3
  THEN [label \in {0} |-> cluster_list]
  ELSE [label \in { labels[i] : i \in 1..Len(labels) } |->
          LET grouped[i \in 0..Len(cluster_list)] ==
                IF i = 0 THEN <<>>
                ELSE IF labels[i] = label
                     THEN Append(grouped[i - 1], cluster_list[i])
                     ELSE grouped[i - 1]
          IN grouped[Len(cluster_list)]]

\* The labellings KMeans may return for n notes and k clusters: every one
\* for up to MaxClustered notes; for more notes the labelling that puts
\* every note in cluster 0 and the one that deals the notes out in turn.
Labellings(n, k) ==
  IF n < 3 THEN {<<>>}
  ELSE IF n <= MaxClustered THEN [1..n -> 0..(k - 1)]
  ELSE { [i \in 1..n |-> 0], [i \in 1..n |-> i % k] }

\* The report engine clusters the n notes of a week.
ClusterNotes ==
  /\ \E n \in 1..41 :
       \E labels \in Labellings(n, determine_cluster_count(n)) :
         last' = [entity_type |-> "cluster", n |-> n,
                  n_clusters |-> determine_cluster_count(n),
                  clusters |-> cluster_notes([i \in 1..n |-> i], labels)]
  /\ UNCHANGED <<now, notes, keywords, note_keywords, relations, reflections,
                 pushed, txn, sess, weekly_reports>>

NextCluster == ClusterNotes

SpecCluster == Init /\ [][NextCluster]_vars

\* The sum of the sizes of the clusters with the labels of `labels`.
RECURSIVE SizeSum(_, _)
SizeSum(clusters, labels) ==
  IF labels = {} THEN 0
  ELSE LET l == CHOOSE x \in labels : TRUE
       IN Len(clusters[l]) + SizeSum(clusters, labels \ {l})

\* C37: the number K of clusters asked for is 1 below 3 notes, 2 below 10,
\* 3 below 20, 4 below 40 and 5 from 40 on; every note is in exactly one of
\* the clusters returned, their sizes sum to the number of notes, and there
\* are at most K of them.
C37_ClustersPartitionNotes ==
  last.entity_type = "cluster"
  => /\ last.n_clusters
          = 1 + Cardinality({ t \in {3, 10, 20, 40} : last.n >= t })
     /\ \A note \in 1..last.n :
          Cardinality({ l \in DOMAIN last.clusters :
                          \E i \in 1..Len(last.clusters[l]) :
                            last.clusters[l][i] = note }) = 1
     /\ SizeSum(last.clusters, DOMAIN last.clusters) = last.n
     /\ Cardinality(DOMAIN last.clusters) <= last.n_clusters

\* C37 witness: 40 notes have been dealt out to 5 clusters.
C37_Witness ==
  /\ last.entity_type = "cluster"
  /\ last.n = 40
  /\ Cardinality(DOMAIN last.clusters) = 5
  /\ \A l \in DOMAIN last.clusters : Len(last.clusters[l]) = 8

\* --------------------------------- SpecFrame: what a note write leaves alone
\* The two users push writes of the note n1 whose created_at and updated_at
\* are any two instants, and deletes of it, one at a time, while the clock
\* moves.  `last` keeps the request, whether the note was stored before it
\* and whether the store changed.
FramePayloads ==
  { [p EXCEPT !.created_at = <<t, "Z">>] :
      p \in { q \in NotePayloads : q.deleted_at = None }, t \in ClientTimes }

FrameChanges ==
  { [entity_type |-> "note", entity_id |-> TheNote, operation |-> "update",
     payload |-> p] : p \in FramePayloads }
  \cup { [entity_type |-> "note", entity_id |-> TheNote, operation |-> "delete",
          payload |-> [deleted_at |-> None]] }

FramePush ==
  /\ \E u \in Users, c \in FrameChanges :
       \E r \in {push_item(DB, now, u, c, Works, Works)} :
         /\ Store(r.db)
         /\ last' = [entity_type |-> "frame", user_id |-> u, change |-> c,
                     success |-> r.ok,
                     existed |-> TheNote \in DOMAIN notes,
                     applied |-> r.db # DB]
  /\ UNCHANGED <<now, pushed, txn, sess, weekly_reports>>

NextFrame == FramePush \/ Tick

SpecFrame == Init /\ [][NextFrame]_vars

\* C38: over pushes applied one at a time the stored updated_at of a note
\* never decreases, and a step that changes its body, importance, source_url
\* or image_path strictly increases its updated_at.
C38_UpdatedAtMonotone ==
  [][ \A id \in DOMAIN notes :
        /\ id \in DOMAIN notes'
        /\ notes'[id].updated_at >= notes[id].updated_at
        /\ ( \/ notes'[id].body # notes[id].body
             \/ notes'[id].importance # notes[id].importance
             \/ notes'[id].source_url # notes[id].source_url
             \/ notes'[id].image_path # notes[id].image_path )
           => notes'[id].updated_at > notes[id].updated_at ]_vars

\* C38 witness: a write of a stored note has been applied and its body is
\* the one stored now; it was pushed by another user than the one who
\* created the note.
C38_Witness ==
  /\ last.entity_type = "frame"
  /\ last.change.operation = "update"
  /\ last.existed
  /\ last.applied
  /\ notes[TheNote].body = last.change.payload.body
  /\ notes[TheNote].updated_at = FromIso(last.change.payload.updated_at)
  /\ notes[TheNote].user_id # last.user_id
  /\ notes[TheNote].deleted_at = NULL

\* C39: no step changes the user_id or the created_at of a stored note: a
\* winning write keeps those of the first insert.
C39_OwnerAndCreationKept ==
  [][ \A id \in DOMAIN notes :
        /\ id \in DOMAIN notes'
        /\ notes'[id].user_id = notes[id].user_id
        /\ notes'[id].created_at = notes[id].created_at ]_vars

\* C39 witness: a write of a stored note that carries another created_at
\* than the stored one, pushed by another user than the stored one, has won.
C39_Witness ==
  /\ last.entity_type = "frame"
  /\ last.change.operation = "update"
  /\ last.existed
  /\ last.applied
  /\ last.success
  /\ notes[TheNote].updated_at = FromIso(last.change.payload.updated_at)
  /\ FromIso(last.change.payload.created_at) # notes[TheNote].created_at
  /\ last.user_id # notes[TheNote].user_id

\* ------------------------------------------- deletes of what is not one's own
\* C40: a note delete whose entity_id names no note of the pushing user, and
\* a relation delete of a relation whose from-note is not a note of the
\* pushing user, leave the store as it was and are reported success.
C40_ForeignDeleteIsSilentNoOp ==
  [][ ( /\ last' # last
        /\ \/ /\ IsOp(last', "note", "delete")
              /\ \/ last'.change.entity_id \notin DOMAIN notes
                 \/ notes[last'.change.entity_id].user_id # last'.user_id
           \/ /\ IsOp(last', "relation", "delete")
              /\ last'.change.entity_id \in DOMAIN relations
              /\ LET from == relations[last'.change.entity_id].from_note_id
                 IN \/ from \notin DOMAIN notes
                    \/ notes[from].user_id # last'.user_id )
      => /\ last'.success
         /\ DB' = DB ]_vars

\* C40 witness: a user has pushed, with success, the delete of a relation
\* that starts at a live note of the other user, and the relation is there.
C40_Witness ==
  /\ IsOp(last, "relation", "delete")
  /\ last.success
  /\ last.change.entity_id \in DOMAIN relations
  /\ relations[last.change.entity_id].from_note_id \in DOMAIN notes
  /\ notes[relations[last.change.entity_id].from_note_id].user_id # last.user_id
  /\ notes[relations[last.change.entity_id].from_note_id].deleted_at = NULL

\* A user has pushed, with success, the delete of a live note of the other
\* user, and the note is live.
ForeignNoteDeleteIgnored ==
  /\ IsOp(last, "note", "delete")
  /\ last.success
  /\ last.change.entity_id \in DOMAIN notes
  /\ notes[last.change.entity_id].user_id # last.user_id
  /\ notes[last.change.entity_id].deleted_at = NULL

====
